---- MODULE Spec2Model ----
(***************************************************************************)
(* Model of the generation pipeline of coachmic.                           *)
(*                                                                         *)
(* Spec: the resume-parse event stream                                     *)
(* (backend/app/routers/resume.py, event_generator of parse_resume_stream  *)
(* and of reparse_stored_resume_stream) together with the generation tasks *)
(* it runs (backend/app/services/gemini_service.py).                       *)
(* SpecRetry: the retry loop of analyze_transcript (gemini_service.py).    *)
(* SpecExtract: _extract_coach_response (coach_service.py), applied to a   *)
(* response and again to the serialization of its own result.              *)
(* SpecRepair: _clean_json_response and _repair_json with the parse that   *)
(* follows them (company_intel_service.py).                                *)
(* SpecDelete: delete_user_account (account_deletion_service.py).          *)
(* SpecValidate: the change_type and question_type validators             *)
(* (backend/app/models/company_intel.py).                                  *)
(* SpecCache: generate_company_intel with its cache and the endpoints that *)
(* call it (company_intel_service.py, routers/company_intel.py).           *)
(* SpecInterview: process_user_message, pause_interview, resume_interview  *)
(* and end_interview on one session (text_interview_service.py).           *)
(* SpecStream: _stream_generate with its thread (gemini_service.py).       *)
(* SpecVersion: _add_resume_version (routers/resume.py).                   *)
(*                                                                         *)
(* Each specification moves the variables of its own component and leaves  *)
(* the other components in their initial state.                            *)
(*                                                                         *)
(* The generator of Spec is a coroutine on a single-threaded event loop: it runs   *)
(* synchronously between two suspension points (the await of asyncio.wait  *)
(* and every yield).  pc names the suspension point the generator is at,   *)
(* or the synchronous segment it is executing ("loop", "merge", "save",    *)
(* "store").  Tasks become done, and the caller may disconnect, only while *)
(* the generator is suspended.                                             *)
(***************************************************************************)
EXTENDS Integers, Sequences, FiniteSets, TLC

VARIABLES
    variant,     \* "parse" (parse_resume_stream) or "reparse" (reparse_stored_resume_stream)
    reqSession,  \* request.session_id of the reparse request, "none" when absent
    taskState,   \* per task: "absent", "running", or the value/exception it finished with
    reply,       \* per task: what the Generation Backend answered to its call
    finishSeq,   \* the tasks in the order in which they became done
    pending,     \* the generator's local set `pending`
    done,        \* the part of the local set `done` the for loop has not visited yet
    results,     \* the generator's local dict `results`, per task name
    stream,      \* the events yielded so far
    pc,          \* position of the generator
    closedAt,    \* the suspension point at which the caller disconnected, "none" before
    merged,      \* the local `merged_data`, NoMerged before the merge
    sessionId,   \* the local `session_id`, "none" before it is assigned
    saved,       \* what the run wrote to the session document, NoSaved before
    storage,     \* what the run wrote for the resume file: uploaded, version, linked
    \* analyze_transcript
    questionCount, \* question_count: the agent messages of the transcript
    attempt,       \* the loop variable `attempt`
    calls,         \* calls of generate_with_gemini made so far
    outcomes,      \* what the backend answered to each call, in order
    returned,      \* what analyze_transcript ended with, NoReturn before
    \* _extract_coach_response
    raw,           \* the response text handed to the extractor
    first,         \* the outcome of _extract_coach_response(raw), NoOutcome before
    serialized,    \* json.dumps of the first outcome's value, <<>> before
    second,        \* the outcome of extracting `serialized`, NoOutcome before
    \* _repair_json
    intelText,     \* the response text of the company intel generation
    intel,         \* what cleaning, parsing and repairing made of it
    \* delete_user_account
    delStep,       \* the position in the deletion order of the step to run next
    attempted,     \* the steps whose deletion was called
    failedSteps,   \* the steps whose deletion did not remove everything
    deleted_counts, \* deleted_counts of the result
    errors,        \* errors of the result: the steps that appended a message
    success,       \* success of the result, FALSE before the return
    \* normalize_change_type, normalize_question_type
    value,         \* the value v handed to the validators
    change_type,   \* what normalize_change_type returned, <<>> before
    question_type, \* what normalize_question_type returned, <<>> before
    \* generate_company_intel
    _intel_cache,  \* the entry of _intel_cache under the key of the company, NoEntry if none
    request,       \* per request: its endpoint, its caller, where it stands, what it returned
    overtaken,     \* the requests that were generating when another request cached its intel
    \* text interview
    stored,        \* the document of the interview in the text_interviews collection
    call,          \* per call of process_user_message: where it stands and its local state
    completedWith, \* the transcript stored when end_interview first returned, <<>> before
    \* _stream_generate
    chunk_queue,   \* chunk_queue: the chunk texts put and not yet taken, and the end signal
    error_holder,  \* error_holder: the exceptions appended by the thread
    thread,        \* where sync_stream stands: "streaming", "failing", "finishing", "ended"
    consumer,      \* where the generator stands: "check", "get", "raising", "joining", or how it ended
    made,          \* the number of chunks the backend has sent
    produced,      \* the non-empty chunk texts the thread has put, in order
    yielded,       \* the chunk texts the generator has yielded, in order
    \* _add_resume_version
    resume_versions,            \* resume_versions of the user document, in stored order
    current_resume_version_id,  \* current_resume_version_id of the user document, 0 if none
    uploads                     \* the calls of _add_resume_version made so far

orchVars == <<variant, reqSession, taskState, reply, finishSeq, pending, done,
              results, stream, pc, closedAt, merged, sessionId, saved, storage>>

retryVars == <<questionCount, attempt, calls, outcomes, returned>>

extractVars == <<raw, first, serialized, second>>

repairVars == <<intelText, intel>>

deleteVars == <<delStep, attempted, failedSteps, deleted_counts, errors, success>>

validateVars == <<value, change_type, question_type>>

cacheVars == <<_intel_cache, request, overtaken>>

interviewVars == <<stored, call, completedWith>>

streamVars == <<chunk_queue, error_holder, thread, consumer, made, produced, yielded>>

versionVars == <<resume_versions, current_resume_version_id, uploads>>

vars == <<orchVars, retryVars, extractVars, repairVars, deleteVars,
          validateVars, cacheVars, interviewVars, streamVars, versionVars>>

\* The variables outside each component.
others == <<retryVars, extractVars, repairVars, deleteVars, validateVars,
            cacheVars, interviewVars, streamVars, versionVars>>

notRetry == <<orchVars, extractVars, repairVars, deleteVars, validateVars,
              cacheVars, interviewVars, streamVars, versionVars>>

notExtract == <<orchVars, retryVars, repairVars, deleteVars, validateVars,
                cacheVars, interviewVars, streamVars, versionVars>>

notRepair == <<orchVars, retryVars, extractVars, deleteVars, validateVars,
               cacheVars, interviewVars, streamVars, versionVars>>

notDelete == <<orchVars, retryVars, extractVars, repairVars, validateVars,
               cacheVars, interviewVars, streamVars, versionVars>>

notValidate == <<orchVars, retryVars, extractVars, repairVars, deleteVars,
                 cacheVars, interviewVars, streamVars, versionVars>>

notCache == <<orchVars, retryVars, extractVars, repairVars, deleteVars,
              validateVars, interviewVars, streamVars, versionVars>>

notInterview == <<orchVars, retryVars, extractVars, repairVars, deleteVars,
                  validateVars, cacheVars, streamVars, versionVars>>

notStream == <<orchVars, retryVars, extractVars, repairVars, deleteVars,
               validateVars, cacheVars, interviewVars, versionVars>>

notVersion == <<orchVars, retryVars, extractVars, repairVars, deleteVars,
                validateVars, cacheVars, interviewVars, streamVars>>

----------------------------------------------------------------------------
(* Names and inputs *)

SeedTasks == {"basic", "career", "ats"}

Tasks == SeedTasks \cup {"improve"}

\* What the Generation Backend can answer to a JSON task:
\*   "ok"        a JSON object of the shape the prompt asks for
\*   "malformed" text that is not JSON
\*   "transport" the call raises (unreachable, timeout, quota)
\*   "array"     well-formed JSON that is a non-empty array, e.g. ["x"]
\*   "strlist"   a JSON object whose list field holds plain strings, e.g.
\*               {"experience": ["x"]}, {"star_stories": ["x"]}, {"keyword_gaps": ["x"]}
\*   "empty"     the JSON object {}
JsonReplies == {"ok", "malformed", "transport", "array", "strlist", "empty"}

\* The improve task asks for free text; "nocall" marks a run of the task that
\* raised while building its prompt and never reached the backend.
TextReplies == {"ok", "transport"}

Suspended == {"wait", "yielded", "ats_yielded", "storage_yielded",
              "complete_yielded", "fatal_yielded"}

Finished(t) == taskState[t] \notin {"absent", "running"}

----------------------------------------------------------------------------
(* The generation tasks (gemini_service.py).  Each operator gives what the *)
(* coroutine finishes with for a backend reply: the kind of value it       *)
(* returns, or "raised" when it ends with an exception.                    *)

\* _parse_resume_basic: `except Exception` turns every failure of the call
\* or of json.loads into the default dict; any JSON value is returned as is.
_parse_resume_basic(r) ==
    CASE r = "ok"        -> "dict"
      [] r = "malformed" -> "fallback"
      [] r = "transport" -> "fallback"
      [] OTHER           -> r

\* _parse_resume_career_analysis: same structure as the basic task.
_parse_resume_career_analysis(r) ==
    CASE r = "ok"        -> "dict"
      [] r = "malformed" -> "fallback"
      [] r = "transport" -> "fallback"
      [] OTHER           -> r

\* calculate_ats_score_and_keywords: only json.JSONDecodeError is caught,
\* so a failure of the call itself leaves the coroutine as an exception.
calculate_ats_score_and_keywords(r) ==
    CASE r = "ok"        -> "dict"
      [] r = "malformed" -> "fallback"
      [] r = "transport" -> "raised"
      [] OTHER           -> r

\* generate_improved_resume(keyword_gaps = ats result's keyword_gaps, ...):
\* the prompt is built with gap.get(...) for every gap, which raises when a
\* gap is a plain string; otherwise the call's exception propagates and the
\* text is returned.
generate_improved_resume(atsResult, r) ==
    IF atsResult = "strlist" THEN "raised"
    ELSE IF r = "transport" THEN "raised"
    ELSE "text"

\* The coroutine a task runs.
TaskOutcome(t, r) ==
    CASE t = "basic"   -> _parse_resume_basic(r)
      [] t = "career"  -> _parse_resume_career_analysis(r)
      [] t = "ats"     -> calculate_ats_score_and_keywords(r)
      [] t = "improve" -> generate_improved_resume(results["ats"], r)

\* The replies the backend can give to task t.  The improve task spawned
\* from an ats result with string gaps raises before it calls the backend.
RepliesFor(t) ==
    IF t = "improve"
    THEN (IF results["ats"] = "strlist" THEN {"nocall"} ELSE TextReplies)
    ELSE JsonReplies

\* _convert_to_frontend_format(data, is_basic): {} for a falsy value; a
\* non-empty array has none of the expected keys and converts to {}; the
\* basic default dict keeps its keys, the career default dict holds only
\* falsy values and converts to {}; exp.get / story.get raises on a string.
_convert_to_frontend_format(data, is_basic) ==
    CASE data = "dict"     -> "dict"
      [] data = "fallback" -> IF is_basic THEN "fallback" ELSE "empty"
      [] data = "empty"    -> "empty"
      [] data = "array"    -> "empty"
      [] data = "strlist"  -> "raised"

----------------------------------------------------------------------------
(* Events, as the dicts the generator serialises *)

DataEvent(name, data) == [type |-> name, data |-> data]

TaskError(name) == [type |-> "error", task |-> name]

FatalError == [type |-> "error"]

StorageEvent == [type |-> "storage"]

WarningEvent == [type |-> "warning"]

CompleteEvent(sid) == [type |-> "complete", sessionId |-> sid]

\* The task an event is about, "none" for the run-level events.
EventTask(e) ==
    IF e.type \in Tasks THEN e.type
    ELSE IF e.type = "error" /\ "task" \in DOMAIN e THEN e.task
    ELSE "none"

----------------------------------------------------------------------------
(* Initial state: the three seed tasks are created and pending *)

NoStorage == [uploaded |-> FALSE, version |-> FALSE, linked |-> FALSE]

\* merged_data and the session write before they exist.
NoMerged == [basic |-> "none", career |-> "none", atsAnalysis |-> "none"]

NoSaved == [session_id |-> "none", resume_data |-> NoMerged, improved_resume_markdown |-> "none"]

OrchInit ==
    /\ variant \in {"parse", "reparse"}
    /\ reqSession \in (IF variant = "reparse" THEN {"none", "s_req"} ELSE {"none"})
    /\ taskState = [t \in Tasks |-> IF t \in SeedTasks THEN "running" ELSE "absent"]
    /\ reply = [t \in Tasks |-> "none"]
    /\ finishSeq = <<>>
    /\ pending = SeedTasks
    /\ done = {}
    /\ results = [t \in Tasks |-> "unset"]
    /\ stream = <<>>
    /\ pc = "wait"
    /\ closedAt = "none"
    /\ merged = NoMerged
    /\ sessionId = "none"
    /\ saved = NoSaved
    /\ storage = NoStorage

\* The stream component at rest, for the specifications of the others.
OrchIdle == OrchInit /\ variant = "parse"

----------------------------------------------------------------------------
(* Environment: a task becomes done; the caller disconnects *)

\* A running task finishes with the outcome of its coroutine.  Tasks are not
\* tied to the generator: they also finish after it has ended or was closed.
Finish(t, r) ==
    /\ pc \in Suspended \cup {"done", "closed"}
    /\ taskState[t] = "running"
    /\ r \in RepliesFor(t)
    /\ taskState' = [taskState EXCEPT ![t] = TaskOutcome(t, r)]
    /\ reply' = [reply EXCEPT ![t] = r]
    /\ finishSeq' = Append(finishSeq, t)
    /\ UNCHANGED <<others, variant, reqSession, pending, done, results, stream, pc,
                   closedAt, merged, sessionId, saved, storage>>

\* The caller goes away while the generator is suspended: the generator is
\* cancelled or closed at that point (CancelledError / GeneratorExit are not
\* Exceptions, so neither handler runs).  Nothing cancels the tasks.
Disconnect ==
    /\ pc \in Suspended
    /\ pc' = "closed"
    /\ closedAt' = pc
    /\ UNCHANGED <<others, variant, reqSession, taskState, reply, finishSeq, pending,
                   done, results, stream, merged, sessionId, saved, storage>>

----------------------------------------------------------------------------
(* The generator (resume.py, event_generator) *)

\* Variant that leaves the loop as soon as the current batch is handled,
\* whether or not tasks are still pending.
NextInLoop_first_batch(d, p) ==
    IF d # {} THEN "loop" ELSE "merge"

\* Where the generator goes at the end of one iteration of `for task in
\* done`: the next task of the batch, the next wait, or past `while pending`.
NextInLoop(d, p) ==
    IF d # {} THEN "loop" ELSE IF p # {} THEN "wait" ELSE "merge"

\* Variant that keeps the done tasks and drops the rest of pending, so that
\* the loop ends after its first batch.
WaitReturn_loses_pending ==
    /\ pc = "wait"
    /\ LET ready == {t \in pending : Finished(t)} IN
         /\ ready # {}
         /\ done' = ready
         /\ pending' = {}
    /\ pc' = "loop"
    /\ UNCHANGED <<others, variant, reqSession, taskState, reply, finishSeq, results,
                   stream, closedAt, merged, sessionId, saved, storage>>

\* Variant that takes the done tasks and leaves them in pending as well.
WaitReturn_keeps_done ==
    /\ pc = "wait"
    /\ LET ready == {t \in pending : Finished(t)} IN
         /\ ready # {}
         /\ done' = ready
    /\ pc' = "loop"
    /\ UNCHANGED <<others, variant, reqSession, taskState, reply, finishSeq, pending, results,
                   stream, closedAt, merged, sessionId, saved, storage>>

\* done, pending = await asyncio.wait(pending, return_when=FIRST_COMPLETED):
\* returns once a pending task is done, with every pending task that is done
\* by then.
WaitReturn ==
    /\ pc = "wait"
    /\ LET ready == {t \in pending : Finished(t)} IN
         /\ ready # {}
         /\ done' = ready
         /\ pending' = pending \ ready
    /\ pc' = "loop"
    /\ UNCHANGED <<others, variant, reqSession, taskState, reply, finishSeq, results,
                   stream, closedAt, merged, sessionId, saved, storage>>

\* One iteration of `for task in done`, up to its first yield.  `done` is a
\* set of Task objects, iterated in hash order: any member can come next.
HandleTask(t) ==
    /\ pc = "loop"
    /\ t \in done
    /\ done' = done \ {t}
    /\ IF taskState[t] = "raised"
       THEN \* task.result() re-raises; except Exception -> error event
            /\ stream' = Append(stream, TaskError(t))
            /\ pc' = "yielded"
            /\ UNCHANGED results
       ELSE IF t \in {"basic", "career"}
       THEN LET conv == _convert_to_frontend_format(taskState[t], t = "basic") IN
            IF conv = "raised"
            THEN /\ stream' = Append(stream, TaskError(t))
                 /\ pc' = "yielded"
                 /\ UNCHANGED results
            ELSE /\ results' = [results EXCEPT ![t] = conv]
                 /\ stream' = Append(stream, DataEvent(t, conv))
                 /\ pc' = "yielded"
       ELSE IF t = "ats"
       THEN /\ results' = [results EXCEPT ![t] = taskState[t]]
            /\ stream' = Append(stream, DataEvent(t, taskState[t]))
            /\ pc' = "ats_yielded"
       ELSE /\ results' = [results EXCEPT ![t] = taskState[t]]
            /\ stream' = Append(stream, DataEvent(t, taskState[t]))
            /\ pc' = "yielded"
    /\ UNCHANGED <<others, variant, reqSession, taskState, reply, finishSeq, pending,
                   closedAt, merged, sessionId, saved, storage>>

\* Variant that creates the improve task without adding it to pending.
SpawnImprove_forgotten(p) == p

\* pending.add(improve_task) after improve_task = asyncio.create_task(...)
SpawnImprove(p) == p \cup {"improve"}

\* Variant that creates the improve task also when result.get raised.
ResumeAts_spawn_always ==
    /\ pc = "ats_yielded"
    /\ taskState' = [taskState EXCEPT !["improve"] = "running"]
    /\ pending' = SpawnImprove(pending)
    /\ IF results["ats"] = "array"
       THEN /\ stream' = Append(stream, TaskError("ats"))
            /\ pc' = "yielded"
       ELSE /\ pc' = NextInLoop(done, pending')
            /\ UNCHANGED stream
    /\ UNCHANGED <<others, variant, reqSession, reply, finishSeq, done, results,
                   closedAt, merged, sessionId, saved, storage>>

\* The ats branch after its yield: result.get(...) four times, then the
\* improve task is created and added to pending.  result.get raises on a
\* value that is not a dict; the handler of the same try then yields an
\* error event for ats.
ResumeAts ==
    /\ pc = "ats_yielded"
    /\ IF results["ats"] = "array"
       THEN /\ stream' = Append(stream, TaskError("ats"))
            /\ pc' = "yielded"
            /\ UNCHANGED <<taskState, pending>>
       ELSE /\ taskState' = [taskState EXCEPT !["improve"] = "running"]
            /\ pending' = SpawnImprove(pending)
            /\ pc' = NextInLoop(done, pending')
            /\ UNCHANGED stream
    /\ UNCHANGED <<others, variant, reqSession, reply, finishSeq, done, results,
                   closedAt, merged, sessionId, saved, storage>>

\* The consumer asks for the next event after a per-task event.
Resume ==
    /\ pc = "yielded"
    /\ pc' = NextInLoop(done, pending)
    /\ UNCHANGED <<others, variant, reqSession, taskState, reply, finishSeq, pending,
                   done, results, stream, closedAt, merged, sessionId, saved, storage>>

\* merged_data: rawText, fileName, the basic and career dicts spread in, and
\* atsAnalysis when results['ats'] is truthy.
MergedData(res) ==
    [basic  |-> IF res["basic"] = "unset" THEN "empty" ELSE res["basic"],
     career |-> IF res["career"] = "unset" THEN "empty" ELSE res["career"],
     atsAnalysis |-> IF res["ats"] \in {"dict", "fallback"} THEN res["ats"] ELSE "absent"]

\* Building atsAnalysis calls ats_result.get (raises on an array) and
\* gap.get for every keyword gap (raises on a string).
MergeRaises(res) == res["ats"] \in {"array", "strlist"}

\* The merge after the loop.  An exception here reaches the outer handler,
\* which yields the run-level error event.
Merge ==
    /\ pc = "merge"
    /\ IF MergeRaises(results)
       THEN /\ stream' = Append(stream, FatalError)
            /\ pc' = "fatal_yielded"
            /\ UNCHANGED merged
       ELSE /\ merged' = MergedData(results)
            /\ pc' = "save"
            /\ UNCHANGED stream
    /\ UNCHANGED <<others, variant, reqSession, taskState, reply, finishSeq, pending,
                   done, results, closedAt, sessionId, saved, storage>>

\* The session the aggregate goes to, read from the store at that moment.
\* parse: the user's active session when the lookup finds one, else a new
\* one.  reparse: the requested session when its document exists, a new one
\* when it does not; without a requested session as for parse.
SessionChoices ==
    IF reqSession # "none" THEN {reqSession, "s_new"} ELSE {"s_active", "s_new"}

\* Variant that writes the aggregate without the improved resume.
SessionWrite_no_improve(sid) ==
    [session_id |-> sid, resume_data |-> merged, improved_resume_markdown |-> ""]

\* The document written: update(...) of an existing session, set(...) of a
\* new one.
SessionWrite(sid) ==
    [session_id |-> sid,
     resume_data |-> merged,
     improved_resume_markdown |-> IF results["improve"] = "unset" THEN "" ELSE results["improve"]]

\* Get or create the session and write the aggregate to it.  A failure of
\* the store reaches the outer handler.  reparse writes no file and yields
\* the complete event next.
SaveSession ==
    /\ pc = "save"
    /\ \E sid \in SessionChoices, ok \in BOOLEAN :
         IF ok
         THEN /\ sessionId' = sid
              /\ saved' = SessionWrite(sid)
              /\ IF variant = "parse"
                 THEN pc' = "store" /\ UNCHANGED stream
                 ELSE /\ stream' = Append(stream, CompleteEvent(sid))
                      /\ pc' = "complete_yielded"
         ELSE /\ stream' = Append(stream, FatalError)
              /\ pc' = "fatal_yielded"
              /\ UNCHANGED <<sessionId, saved>>
    /\ UNCHANGED <<others, variant, reqSession, taskState, reply, finishSeq, pending, done,
                   results, closedAt, merged, storage>>

\* _store_resume_file: upload, add the version to the user document, link
\* the version to the session; `fails` names the step that raises.  Its
\* exception is caught next to the call and reported as a warning.
StoreOutcomes == {"ok", "upload", "version", "link"}

_store_resume_file(fails) ==
    [uploaded |-> fails # "upload",
     version  |-> fails \notin {"upload", "version"},
     linked   |-> fails = "ok"]

StoreFile ==
    /\ pc = "store"
    /\ \E fails \in StoreOutcomes :
         /\ storage' = _store_resume_file(fails)
         /\ stream' = Append(stream, IF fails = "ok" THEN StorageEvent ELSE WarningEvent)
    /\ pc' = "storage_yielded"
    /\ UNCHANGED <<others, variant, reqSession, taskState, reply, finishSeq, pending,
                   done, results, closedAt, merged, sessionId, saved>>

\* After the storage or warning event: the complete event.
ResumeStorage ==
    /\ pc = "storage_yielded"
    /\ stream' = Append(stream, CompleteEvent(sessionId))
    /\ pc' = "complete_yielded"
    /\ UNCHANGED <<others, variant, reqSession, taskState, reply, finishSeq, pending,
                   done, results, closedAt, merged, sessionId, saved, storage>>

\* Variant in which the generator, resumed after its complete event, falls
\* into the outer handler and yields the run-level error event as well.
EndStream_extra_event ==
    /\ pc \in {"complete_yielded", "fatal_yielded"}
    /\ pc' = "done"
    /\ stream' = IF pc = "complete_yielded" THEN Append(stream, FatalError) ELSE stream
    /\ UNCHANGED <<others, variant, reqSession, taskState, reply, finishSeq, pending,
                   done, results, closedAt, merged, sessionId, saved, storage>>

\* After the complete event or the run-level error event the generator
\* returns and the stream ends.
EndStream ==
    /\ pc \in {"complete_yielded", "fatal_yielded"}
    /\ pc' = "done"
    /\ UNCHANGED <<others, variant, reqSession, taskState, reply, finishSeq, pending,
                   done, results, stream, closedAt, merged, sessionId, saved, storage>>

----------------------------------------------------------------------------

Next ==
    \/ \E t \in Tasks : \E r \in JsonReplies \cup TextReplies \cup {"nocall"} : Finish(t, r)
    \/ Disconnect
    \/ WaitReturn
    \/ \E t \in Tasks : HandleTask(t)
    \/ ResumeAts
    \/ Resume
    \/ Merge
    \/ SaveSession
    \/ StoreFile
    \/ ResumeStorage
    \/ EndStream

----------------------------------------------------------------------------
(* analyze_transcript: the retry loop around the feedback generation call *)

MAX_RETRIES == 2

\* The largest number of analyses (and of questions) considered.
MaxQuestions == 2

\* for attempt in range(MAX_RETRIES + 1)
Attempts_without_retry_of_last == MAX_RETRIES
Attempts == MAX_RETRIES + 1

\* What one call of generate_with_gemini can produce: an exception ("error"),
\* nothing ("empty"), only white space ("blank"), text that is not JSON
\* ("text"), JSON that is not an object ("array"), or an object with n
\* question_analyses.
Objects == { [kind |-> "object", question_analyses |-> n] : n \in 0..MaxQuestions }

CallReplies == { [kind |-> k, question_analyses |-> 0] :
                    k \in {"error", "empty", "blank", "text", "array"} } \cup Objects

\* The fallback_response.
fallback_response == [kind |-> "fallback", question_analyses |-> 0]

NoReturn == [kind |-> "none", question_analyses |-> 0]

Raised == [kind |-> "raised", question_analyses |-> 0]

\* The replies that make the body of the try raise: the call itself, json.loads
\* on text that is not JSON, result.get on JSON that is not an object.
Raises(r) == r.kind \in {"error", "text", "array"}

\* The handlers of the try: json.JSONDecodeError, then Exception.
Caught_json_only(r) == r.kind = "text"
Caught(r) == r.kind \in {"text", "error", "array"}

\* An empty response text, or nothing left of it after extraction.
NoText(r) == r.kind \in {"empty", "blank"}

\* The validity check: no analyses although questions were asked.
FailsValidity(r, qc) == r.kind = "object" /\ r.question_analyses = 0 /\ qc > 0

\* An attempt that did not produce a valid result.
Invalid(r, qc) == Raises(r) \/ NoText(r) \/ FailsValidity(r, qc)

RetryInit ==
    /\ questionCount \in 0..MaxQuestions
    /\ attempt = 0
    /\ calls = 0
    /\ outcomes = <<>>
    /\ returned = NoReturn

\* The retry component at rest, for the specifications of the others.
RetryIdle == RetryInit /\ questionCount = 0

\* `continue`, or the end of a pass whose exception was caught: the next pass
\* if the range has one, else the return after the loop.
NextAttempt ==
    IF attempt + 1 < Attempts
    THEN attempt' = attempt + 1 /\ UNCHANGED returned
    ELSE returned' = fallback_response /\ UNCHANGED attempt

\* One pass of the loop body: the call, then what the code makes of reply r.
Attempt(r) ==
    /\ returned = NoReturn
    /\ attempt < Attempts
    /\ calls' = calls + 1
    /\ outcomes' = Append(outcomes, r)
    /\ IF Raises(r)
       THEN IF Caught(r)
            THEN NextAttempt
            ELSE returned' = Raised /\ UNCHANGED attempt
       ELSE IF NoText(r)
       THEN IF attempt < MAX_RETRIES
            THEN NextAttempt
            ELSE returned' = fallback_response /\ UNCHANGED attempt
       ELSE IF FailsValidity(r, questionCount)
       THEN IF attempt < MAX_RETRIES
            THEN NextAttempt
            ELSE returned' = r /\ UNCHANGED attempt
       ELSE returned' = r /\ UNCHANGED attempt
    /\ UNCHANGED <<notRetry, questionCount>>

NextRetry == \E r \in CallReplies : Attempt(r)

----------------------------------------------------------------------------
(* Text.  A text is a sequence of tokens; a token is one character, or a   *)
(* run of letters taken whole (a word).  Python's str operations are       *)
(* modelled on these sequences.                                            *)

Quote == "\""

Backslash == "\\"

Newline == "\n"

Tab == "\t"

Space == " "

\* The backquote character.
Tick == "backquote"

\* A run of opening brackets longer than the recursion limit of the interpreter.
Deep == "[[[[..."

\* The replies of the extractor that are not taken from the response.
Greeting == "I'm here to help. What would you like to discuss?"

Understand == "I understand. Let me help you with that. Could you tell me more about what specific aspect you'd like to focus on?"

Prepare == "I'm here to help you prepare. What would you like to work on?"

\* The number of characters of the words used.
WordLen ==
    ("coach_response" :> 14) @@ ("suggestions" :> 11) @@ ("session_notes" :> 13) @@
    ("action_items" :> 12) @@ ("json" :> 4) @@ ("JSON" :> 4) @@ ("null" :> 4) @@
    ("Great" :> 5) @@ ("point" :> 5) @@ ("Hi" :> 2) @@
    ("tell" :> 4) @@ ("me" :> 2) @@ ("mo" :> 2) @@ (Deep :> 2000) @@
    (Greeting :> 49) @@ (Understand :> 115) @@ (Prepare :> 61)

CharLen(c) == IF c \in DOMAIN WordLen THEN WordLen[c] ELSE 1

RECURSIVE len(_)
len(s) == IF s = <<>> THEN 0 ELSE CharLen(Head(s)) + len(Tail(s))

Min(S) == CHOOSE x \in S : \A y \in S : x <= y

Max(S) == CHOOSE x \in S : \A y \in S : x >= y

\* White space for str.strip, for \s of re and for the JSON decoder.
IsSpace(c) == c \in {Space, Newline, Tab}

NonSpace(s) == {i \in 1..Len(s) : ~IsSpace(s[i])}

strip(s) == IF NonSpace(s) = {} THEN <<>> ELSE SubSeq(s, Min(NonSpace(s)), Max(NonSpace(s)))

rstrip(s) == IF NonSpace(s) = {} THEN <<>> ELSE SubSeq(s, 1, Max(NonSpace(s)))

\* s.rstrip(c) for a single character c
rstripChar(s, c) ==
    LET I == {i \in 1..Len(s) : s[i] # c}
    IN  IF I = {} THEN <<>> ELSE SubSeq(s, 1, Max(I))

startswith(s, p) == Len(p) <= Len(s) /\ SubSeq(s, 1, Len(p)) = p

endswith(s, p) == Len(p) <= Len(s) /\ SubSeq(s, Len(s) - Len(p) + 1, Len(s)) = p

Occurrences(s, p) == {i \in 1..(Len(s) - Len(p) + 1) : SubSeq(s, i, i + Len(p) - 1) = p}

\* s.find(p) and s.rfind(p), counted from 1; 0 is Python's -1
find(s, p) == IF Occurrences(s, p) = {} THEN 0 ELSE Min(Occurrences(s, p))

rfind(s, p) == IF Occurrences(s, p) = {} THEN 0 ELSE Max(Occurrences(s, p))

\* s[n:]
Drop(s, n) == SubSeq(s, n + 1, Len(s))

\* s.count(c)
count(s, c) == Cardinality({i \in 1..Len(s) : s[i] = c})

\* The first position at or after i that does not hold white space.
SkipSpace(s, i) == Min({j \in i..(Len(s) + 1) : j = Len(s) + 1 \/ ~IsSpace(s[j])})

\* s.replace(p, r), p of two tokens
RECURSIVE replace(_, _, _)
replace(s, p, r) ==
    IF Len(s) < 2 THEN s
    ELSE IF SubSeq(s, 1, 2) = p THEN r \o replace(Drop(s, 2), p, r)
    ELSE <<Head(s)>> \o replace(Tail(s), p, r)

----------------------------------------------------------------------------
(* JSON values, json.loads and json.dumps *)

JStr(c) == [t |-> "str", chars |-> c, items |-> <<>>, keys |-> <<>>, vals |-> <<>>]

JNull == [t |-> "null", chars |-> <<>>, items |-> <<>>, keys |-> <<>>, vals |-> <<>>]

JList(xs) == [t |-> "list", chars |-> <<>>, items |-> xs, keys |-> <<>>, vals |-> <<>>]

JDict(ks, vs) == [t |-> "dict", chars |-> <<>>, items |-> <<>>, keys |-> ks, vals |-> vs]

\* d[k] = v
Put(d, k, v) ==
    IF \E i \in 1..Len(d.keys) : d.keys[i] = k
    THEN JDict(d.keys, [i \in 1..Len(d.keys) |-> IF d.keys[i] = k THEN v ELSE d.vals[i]])
    ELSE JDict(Append(d.keys, k), Append(d.vals, v))

\* k in d, d.get(k, default)
Has(d, k) == \E i \in 1..Len(d.keys) : d.keys[i] = k

Get(d, k, default) ==
    IF Has(d, k) THEN d.vals[CHOOSE i \in 1..Len(d.keys) : d.keys[i] = k] ELSE default

\* The outcome of decoding: a value and the position after it, or the error
\* raised ("decode" is json.JSONDecodeError, "recursion" is RecursionError).
Decoded(v, n) == [err |-> "none", val |-> v, next |-> n]

DecodeError(e) == [err |-> e, val |-> JNull, next |-> 0]

\* The escapes the decoder accepts inside a string.
JsonEscapes == (Quote :> Quote) @@ (Backslash :> Backslash) @@ ("n" :> Newline) @@ ("t" :> Tab)

\* The body of a string from position i to its closing quote; a control
\* character inside a string is an error.
RECURSIVE ScanString(_, _, _)
ScanString(s, i, acc) ==
    IF i > Len(s) THEN DecodeError("decode")
    ELSE IF s[i] = Quote THEN Decoded(JStr(acc), i + 1)
    ELSE IF s[i] = Backslash
    THEN IF i + 1 <= Len(s) /\ s[i + 1] \in DOMAIN JsonEscapes
         THEN ScanString(s, i + 2, Append(acc, JsonEscapes[s[i + 1]]))
         ELSE DecodeError("decode")
    ELSE IF s[i] \in {Newline, Tab} THEN DecodeError("decode")
    ELSE ScanString(s, i + 1, Append(acc, s[i]))

RECURSIVE ScanValue(_, _)
RECURSIVE ScanMembers(_, _, _)
RECURSIVE ScanElements(_, _, _)

\* The members of an object from the opening quote of a key at position i.
ScanMembers(s, i, d) ==
    IF i > Len(s) \/ s[i] # Quote THEN DecodeError("decode")
    ELSE LET k == ScanString(s, i + 1, <<>>)
         IN  IF k.err # "none" THEN k
             ELSE LET c == SkipSpace(s, k.next)
                  IN  IF c > Len(s) \/ s[c] # ":" THEN DecodeError("decode")
                      ELSE LET v == ScanValue(s, SkipSpace(s, c + 1))
                           IN  IF v.err # "none" THEN v
                               ELSE LET e == SkipSpace(s, v.next)
                                        d2 == Put(d, k.val.chars, v.val)
                                    IN  IF e > Len(s) THEN DecodeError("decode")
                                        ELSE IF s[e] = "}" THEN Decoded(d2, e + 1)
                                        ELSE IF s[e] = ","
                                        THEN ScanMembers(s, SkipSpace(s, e + 1), d2)
                                        ELSE DecodeError("decode")

\* The elements of an array from the value at position i.
ScanElements(s, i, acc) ==
    LET v == ScanValue(s, i)
    IN  IF v.err # "none" THEN v
        ELSE LET e == SkipSpace(s, v.next)
                 acc2 == Append(acc, v.val)
             IN  IF e > Len(s) THEN DecodeError("decode")
                 ELSE IF s[e] = "]" THEN Decoded(JList(acc2), e + 1)
                 ELSE IF s[e] = "," THEN ScanElements(s, SkipSpace(s, e + 1), acc2)
                 ELSE DecodeError("decode")

\* The value that starts at position i.
ScanValue(s, i) ==
    IF i > Len(s) THEN DecodeError("decode")
    ELSE IF s[i] = Quote THEN ScanString(s, i + 1, <<>>)
    ELSE IF s[i] = "{"
    THEN LET j == SkipSpace(s, i + 1)
         IN  IF j <= Len(s) /\ s[j] = "}" THEN Decoded(JDict(<<>>, <<>>), j + 1)
             ELSE ScanMembers(s, j, JDict(<<>>, <<>>))
    ELSE IF s[i] = "["
    THEN LET j == SkipSpace(s, i + 1)
         IN  IF j <= Len(s) /\ s[j] = "]" THEN Decoded(JList(<<>>), j + 1)
             ELSE ScanElements(s, j, <<>>)
    ELSE IF s[i] = "null" THEN Decoded(JNull, i + 1)
    ELSE IF s[i] = Deep THEN DecodeError("recursion")
    ELSE DecodeError("decode")

\* json.loads(s)
json_loads(s) ==
    LET v == ScanValue(s, SkipSpace(s, 1))
    IN  IF v.err # "none" THEN v
        ELSE IF SkipSpace(s, v.next) <= Len(s) THEN DecodeError("decode")
        ELSE v

\* How json.dumps writes one character of a string.
Escaped(c) ==
    IF c = Quote THEN <<Backslash, Quote>>
    ELSE IF c = Backslash THEN <<Backslash, Backslash>>
    ELSE IF c = Newline THEN <<Backslash, "n">>
    ELSE IF c = Tab THEN <<Backslash, "t">>
    ELSE <<c>>

RECURSIVE EscapedAll(_)
EscapedAll(s) == IF s = <<>> THEN <<>> ELSE Escaped(Head(s)) \o EscapedAll(Tail(s))

RECURSIVE json_dumps(_)
RECURSIVE DumpItems(_, _)
RECURSIVE DumpMembers(_, _)

\* The items from the i-th on, separated by ", ".
DumpItems(xs, i) ==
    IF i > Len(xs) THEN <<>>
    ELSE (IF i > 1 THEN <<",", Space>> ELSE <<>>) \o json_dumps(xs[i]) \o DumpItems(xs, i + 1)

DumpMembers(d, i) ==
    IF i > Len(d.keys) THEN <<>>
    ELSE (IF i > 1 THEN <<",", Space>> ELSE <<>>)
         \o <<Quote>> \o EscapedAll(d.keys[i]) \o <<Quote, ":", Space>>
         \o json_dumps(d.vals[i]) \o DumpMembers(d, i + 1)

\* json.dumps(v)
json_dumps(v) ==
    IF v.t = "str" THEN <<Quote>> \o EscapedAll(v.chars) \o <<Quote>>
    ELSE IF v.t = "null" THEN <<"null">>
    ELSE IF v.t = "list" THEN <<"[">> \o DumpItems(v.items, 1) \o <<"]">>
    ELSE <<"{">> \o DumpMembers(v, 1) \o <<"}">>

----------------------------------------------------------------------------
(* _extract_coach_response *)

\* The dict the extractor returns.
Result(cr, sg, sn, ai) ==
    [coach_response |-> cr, suggestions |-> sg, session_notes |-> sn, action_items |-> ai]

\* default_result with its coach_response set to text
default_result(text) == Result(JStr(text), JList(<<>>), JList(<<>>), JList(<<>>))

\* How a call ends: by the return statement of a strategy, or by an exception.
\* Strategy 0 is the return for an empty response, 6 the final fallback.
Returns(n, v) == [kind |-> "returned", strategy |-> n, value |-> v]

RaisesError == [kind |-> "raised", strategy |-> 1, value |-> default_result(<<>>)]

NoOutcome == [kind |-> "none", strategy |-> 0, value |-> default_result(<<>>)]

Fence == <<Tick, Tick, Tick>>

\* Remove the opening fence with its first line.
StripOpeningFence(c) ==
    IF startswith(c, Fence)
    THEN IF find(c, <<Newline>>) > 1 THEN Drop(c, find(c, <<Newline>>)) ELSE Drop(c, 3)
    ELSE c

\* cleaned.split(fence)[0]
BeforeFence(c) == IF find(c, Fence) > 0 THEN SubSeq(c, 1, find(c, Fence) - 1) ELSE c

\* A language tag left on a line of its own.
DropLanguage(c) ==
    IF startswith(strip(c), <<"json", Newline>>) THEN Drop(strip(c), 2)
    ELSE IF startswith(strip(c), <<"JSON", Newline>>) THEN Drop(strip(c), 2)
    ELSE c

cleaned(response) == strip(DropLanguage(BeforeFence(StripOpeningFence(strip(response)))))

\* The match of  "key"\s*:\s*open  that starts at position i: the position
\* after it, 0 when there is none.
PatternEnd(c, i, key, open) ==
    IF i + 2 <= Len(c) /\ SubSeq(c, i, i + 2) = <<Quote, key, Quote>>
    THEN LET j == SkipSpace(c, i + 3)
         IN  IF j <= Len(c) /\ c[j] = ":"
             THEN LET k == SkipSpace(c, j + 1)
                  IN  IF k <= Len(c) /\ c[k] = open THEN k + 1 ELSE 0
             ELSE 0
    ELSE 0

\* re.search(aggressive_pattern, cleaned).end(), 0 without a match
aggressive_pattern(c) ==
    LET M == {i \in 1..Len(c) : PatternEnd(c, i, "coach_response", Quote) > 0}
    IN  IF M = {} THEN 0 ELSE PatternEnd(c, Min(M), "coach_response", Quote)

\* What the loop appends for the character after a backslash.
next_char(c) == IF c = "n" THEN Newline ELSE IF c = "t" THEN Tab ELSE c

\* The loop of strategy 2 from position i.
RECURSIVE content_chars(_, _, _)
content_chars(c, i, acc) ==
    IF i > Len(c) THEN acc
    ELSE IF c[i] = Backslash /\ i + 1 <= Len(c)
    THEN content_chars(c, i + 2, Append(acc, next_char(c[i + 1])))
    ELSE IF c[i] = Quote THEN acc
    ELSE content_chars(c, i + 1, Append(acc, c[i]))

\* The clean-up of the salvaged run without the length gate.
Salvaged_untrimmed(run) == run
Salvaged(run) == rstrip(rstripChar(rstripChar(strip(run), Newline), ","))

\* The quoted items of re.findall on the inside of the suggestions array.
RECURSIVE sugg_items(_, _)
sugg_items(g, acc) ==
    LET p == find(g, <<Quote>>)
        q == IF p = 0 THEN 0 ELSE find(Drop(g, p), <<Quote>>)
    IN  IF p = 0 \/ q = 0 THEN acc
        ELSE sugg_items(Drop(g, p + q), Append(acc, JStr(SubSeq(g, p + 1, p + q - 1))))

\* suggestions_pattern: the first suggestions array that is closed, its items
\* cut to three.
salvaged_suggestions(c) ==
    LET Closes(e) == {j \in e..Len(c) : c[j] = "]"}
        M == {i \in 1..Len(c) : /\ PatternEnd(c, i, "suggestions", "[") > 0
                                /\ Closes(PatternEnd(c, i, "suggestions", "[")) # {}}
    IN  IF M = {} THEN <<>>
        ELSE LET e == PatternEnd(c, Min(M), "suggestions", "[")
                 found == sugg_items(SubSeq(c, e, Min(Closes(e)) - 1), <<>>)
             IN  SubSeq(found, 1, IF Len(found) < 3 THEN Len(found) ELSE 3)

\* Where the run  (?:[^"\\]|\\.)*  that starts at i stops.
RECURSIVE RunEnd(_, _)
RunEnd(c, i) ==
    IF i > Len(c) THEN i
    ELSE IF c[i] = Backslash THEN (IF i + 1 <= Len(c) THEN RunEnd(c, i + 2) ELSE i)
    ELSE IF c[i] = Quote THEN i
    ELSE RunEnd(c, i + 1)

\* re.search(content_pattern, cleaned).group(1), <<>> without a match
content_pattern(c) ==
    LET Closed(e) == e > 0 /\ RunEnd(c, e) <= Len(c) /\ c[RunEnd(c, e)] = Quote
        M == {i \in 1..Len(c) : Closed(PatternEnd(c, i, "coach_response", Quote))}
    IN  IF M = {} THEN <<>>
        ELSE LET e == PatternEnd(c, Min(M), "coach_response", Quote)
             IN  SubSeq(c, e, RunEnd(c, e) - 1)

\* The chain of str.replace of strategy 3.
Replaced(content) ==
    replace(replace(replace(replace(content,
        <<Backslash, Quote>>, <<Quote>>),
        <<Backslash, "n">>, <<Newline>>),
        <<Backslash, "t">>, <<Tab>>),
        <<Backslash, Backslash>>, <<Backslash>>)

\* cleaned.startswith(ch) for a character ch
StartsWithChar(c, ch) == c # <<>> /\ (c[1] = ch \/ (ch = "[" /\ c[1] = Deep))

\* The exceptions of json.loads that strategy 1 catches.
Handled(err) == err = "decode"

_extract_coach_response(response) ==
    LET c == cleaned(response)
        data == json_loads(c)
        content == Salvaged(content_chars(c, aggressive_pattern(c), <<>>))
    IN  IF strip(response) = <<>> THEN Returns(0, default_result(<<Greeting>>))
        ELSE IF data.err # "none" /\ ~Handled(data.err) THEN RaisesError
        ELSE IF data.err = "none" /\ data.val.t = "dict" /\ Has(data.val, <<"coach_response">>)
        THEN Returns(1, Result(Get(data.val, <<"coach_response">>, JStr(<<>>)),
                               Get(data.val, <<"suggestions">>, JList(<<>>)),
                               Get(data.val, <<"session_notes">>, JList(<<>>)),
                               Get(data.val, <<"action_items">>, JList(<<>>))))
        ELSE IF aggressive_pattern(c) > 0 /\ content # <<>> /\ len(content) > 5
        THEN Returns(2, Result(JStr(content), JList(salvaged_suggestions(c)),
                               JList(<<>>), JList(<<>>)))
        ELSE IF content_pattern(c) # <<>>
        THEN Returns(3, default_result(Replaced(content_pattern(c))))
        ELSE IF \/ StartsWithChar(c, "{")
                \/ StartsWithChar(c, "[")
                \/ find(c, <<Quote, "coach_response", Quote>>) > 0
        THEN Returns(4, default_result(<<Understand>>))
        ELSE IF ~StartsWithChar(c, "{") /\ ~StartsWithChar(c, Quote)
        THEN Returns(5, default_result(c))
        ELSE Returns(6, default_result(<<Prepare>>))

\* json.dumps of a returned dict
serialize(v) ==
    json_dumps(JDict(<<<<"coach_response">>, <<"suggestions">>, <<"session_notes">>, <<"action_items">>>>,
                     <<v.coach_response, v.suggestions, v.session_notes, v.action_items>>))

(* The responses considered *)

\* The largest number of pieces in the text of a coach_response value.
MaxAtoms == 2

\* The largest length of a response made of arbitrary tokens.
MaxLen == 2

\* The pieces a coach_response value is written from, as they stand in the
\* response: words, punctuation, escapes, an escaped fence and a fence.
BodyAtoms ==
    { <<"Great">>, <<"Hi">>, <<",">>, <<Space>>, <<Backslash, Quote>>, <<Backslash, "n">>,
      <<Backslash, Backslash>>, <<Backslash, Tick, Backslash, Tick, Backslash, Tick>>, Fence }

RECURSIVE Bodies(_)
Bodies(n) ==
    IF n = 0 THEN {<<>>}
    ELSE Bodies(n - 1) \cup {b \o a : b \in Bodies(n - 1), a \in BodyAtoms}

\* "key": "body"
StringMember(key, body) == <<Quote, key, Quote, ":", Space, Quote>> \o body \o <<Quote>>

SuggestionsMember ==
    <<Quote, "suggestions", Quote, ":", Space, "[",
      Quote, "Hi", Quote, ",", Space, Quote, "Great", Quote, ",", Space,
      Quote, "point", Quote, ",", Space, Quote, "json", Quote, "]">>

\* The objects a backend writes: the coach_response alone, or with the
\* suggestions after or before it.
ObjectTexts(body) ==
    { <<"{">> \o StringMember("coach_response", body) \o <<"}">>,
      <<"{">> \o StringMember("coach_response", body) \o <<",", Space>> \o SuggestionsMember \o <<"}">>,
      <<"{">> \o SuggestionsMember \o <<",", Space>> \o StringMember("coach_response", body) \o <<"}">> }

\* The text as it is, in a fence with or without a language, after a language line.
Wrapped(t) ==
    { t,
      Fence \o <<"json", Newline>> \o t \o <<Newline>> \o Fence,
      Fence \o <<Newline>> \o t \o <<Newline>> \o Fence,
      <<"json", Newline>> \o t }

\* Every truncation of a text.
Prefixes(t) == {SubSeq(t, 1, k) : k \in 0..Len(t)}

Alphabet ==
    {"{", "}", "[", "]", ":", ",", Quote, Backslash, Space, Newline, Tick,
     "Hi", "Great", "json", "null", "coach_response"}

\* The texts of at most n tokens.
RECURSIVE Texts(_)
Texts(n) ==
    IF n = 0 THEN {<<>>}
    ELSE Texts(n - 1) \cup
         {Append(t, a) : t \in Texts(n - 1), a \in Alphabet}

TruncatedObjects ==
    UNION {Prefixes(<<"{">> \o StringMember("coach_response", b) \o <<"}">>) : b \in Bodies(MaxAtoms)}

WrappedObjects ==
    UNION {Prefixes(w) : w \in UNION {Wrapped(t) : t \in
              ObjectTexts(<<"Great", Space, "point">>) \cup ObjectTexts(<<"Hi">>)}}

DeepTexts ==
    { <<Deep>>, <<"{", Quote, "coach_response", Quote, ":", Space, Deep>> }

\* The response of the truncation scenario.
ScenarioValue == <<"Great", Space, "point", ",", Space, "tell", Space, "me", Space, "mo">>

ScenarioResponse == <<"{", Quote, "coach_response", Quote, ":", Space, Quote>> \o ScenarioValue

\* "key": null
NullMember(key) == <<Quote, key, Quote, ":", Space, "null">>

\* Objects in which an expected field holds null.
NullObjects ==
    { <<"{">> \o NullMember("coach_response") \o <<"}">> } \cup
    { <<"{">> \o StringMember("coach_response", <<"Hi">>) \o <<",", Space>> \o NullMember(key) \o <<"}">>
        : key \in {"suggestions", "session_notes", "action_items"} }

\* No backslash stands before a word whose first letter makes an escape.
Separable(t) == \A i \in 1..(Len(t) - 1) : ~(t[i] = Backslash /\ t[i + 1] = "null")

Responses ==
    {t \in TruncatedObjects \cup WrappedObjects \cup Texts(MaxLen) \cup DeepTexts
              \cup NullObjects \cup {ScenarioResponse} : Separable(t)}

ExtractIdle ==
    /\ raw = <<>>
    /\ first = NoOutcome
    /\ serialized = <<>>
    /\ second = NoOutcome

ExtractInit ==
    /\ raw \in Responses
    /\ first = NoOutcome
    /\ serialized = <<>>
    /\ second = NoOutcome

\* The call of the extractor on the response.
Extract ==
    /\ first = NoOutcome
    /\ first' = _extract_coach_response(raw)
    /\ UNCHANGED <<notExtract, raw, serialized, second>>

\* The returned dict is written out as JSON.
Serialize ==
    /\ first.kind = "returned"
    /\ serialized = <<>>
    /\ serialized' = serialize(first.value)
    /\ UNCHANGED <<notExtract, raw, first, second>>

\* The extractor is run on its own output.
ReExtract ==
    /\ serialized # <<>>
    /\ second = NoOutcome
    /\ second' = _extract_coach_response(serialized)
    /\ UNCHANGED <<notExtract, raw, first, serialized>>

NextExtract ==
    \/ Extract
    \/ Serialize
    \/ ReExtract

----------------------------------------------------------------------------
(* _repair_json *)

\* Clean markdown code blocks from the response.
_clean_json_response(text) ==
    LET t == strip(text)
        a == IF startswith(t, Fence \o <<"json">>) THEN Drop(t, 4)
             ELSE IF startswith(t, Fence) THEN Drop(t, 3)
             ELSE t
        b == IF endswith(a, Fence) THEN SubSeq(a, 1, Len(a) - 3) ELSE a
    IN  strip(b)

\* n times the character c
Closers(c, n) == [i \in 1..(IF n > 0 THEN n ELSE 0) |-> c]

_repair_json(text) ==
    LET t == strip(text)
        open_braces == count(t, "{")
        close_braces == count(t, "}")
        open_brackets == count(t, "[")
        close_brackets == count(t, "]")
        last_quote == rfind(t, <<Quote>>)
        after_quote == strip(Drop(t, last_quote))
        cut == IF last_quote > 1 /\ (after_quote = <<>> \/ after_quote[1] \notin {",", "}", "]", ":"})
               THEN SubSeq(t, 1, last_quote)
               ELSE t
    IN  IF open_braces > close_braces \/ open_brackets > close_brackets
        THEN rstrip(rstripChar(cut, ","))
                 \o Closers("]", open_brackets - close_brackets)
                 \o Closers("}", open_braces - close_braces)
        ELSE t

\* What _generate_intel_with_grounding makes of the response text: the
\* cleaned text, the repaired text when the first parse failed, and how it
\* ended: "parsed" as it was, "repaired", or "failed" when the function raises.
Intel(k, c, r, v) == [kind |-> k, text |-> c, repaired_text |-> r, intel_data |-> v]

NoIntel == Intel("none", <<>>, <<>>, JNull)

parse_intel(response_text) ==
    LET text == _clean_json_response(response_text)
        direct == json_loads(text)
        repaired_text == _repair_json(text)
        again == json_loads(repaired_text)
    IN  IF direct.err = "none"
        THEN IF direct.val.t = "dict"
             THEN Intel("parsed", text, <<>>, direct.val)
             ELSE Intel("failed", text, <<>>, JNull)
        ELSE IF again.err = "none"
        THEN IF again.val.t = "dict"
             THEN Intel("repaired", text, repaired_text, again.val)
             ELSE Intel("failed", text, repaired_text, JNull)
        ELSE Intel("failed", text, repaired_text, JNull)

(* The responses considered *)

EmptyObject == JDict(<<>>, <<>>)

\* The intelligence documents a backend writes: objects in objects, an array
\* of objects, braces inside a string, an array inside objects.
Documents ==
    { JDict(<< <<"a">> >>,
            << JDict(<< <<"b">>, <<"c">>, <<"d">>, <<"e">> >>,
                     <<EmptyObject, EmptyObject, EmptyObject, JStr(<<"Hi">>)>>) >>),
      JDict(<< <<"a">> >>,
            << JList(<< JDict(<< <<"b">>, <<"c">>, <<"d">>, <<"e">> >>,
                              <<EmptyObject, EmptyObject, EmptyObject, JStr(<<"Hi">>)>>) >>) >>),
      JDict(<< <<"a">>, <<"b">> >>,
            << JStr(<<"}", "}">>),
               JDict(<< <<"c">> >>,
                     << JDict(<< <<"d">> >>,
                              << JDict(<< <<"e">>, <<"f">> >>, <<EmptyObject, JStr(<<"Hi">>)>>) >>) >>) >>),
      JDict(<< <<"a">> >>,
            << JDict(<< <<"b">> >>,
                     << JList(<<EmptyObject, EmptyObject, EmptyObject, JStr(<<"Hi">>)>>) >>) >>) }

\* The document as written, or in a fence; cut anywhere.
IntelResponses ==
    UNION {Prefixes(json_dumps(d)) \cup Prefixes(Fence \o <<"json", Newline>> \o json_dumps(d) \o <<Newline>> \o Fence)
              : d \in Documents}

RepairIdle ==
    /\ intelText = <<>>
    /\ intel = NoIntel

RepairInit ==
    /\ intelText \in IntelResponses
    /\ intel = NoIntel

\* The response is cleaned, parsed and, if that fails, repaired and parsed again.
ParseIntel ==
    /\ intel = NoIntel
    /\ intel' = parse_intel(intelText)
    /\ UNCHANGED <<notRepair, intelText>>

NextRepair == ParseIntel

----------------------------------------------------------------------------
(* delete_user_account *)

batch_size == 500

\* The largest number of batches of one collection, each of batch_size documents.
MaxBatches == 1

\* The largest number of resume files of the user.
MaxFiles == 2

\* The deletion order.
Steps ==
    <<"sessions", "feedback", "interviews", "text_interviews", "coaching_sessions",
      "saved_jobs", "resume_files", "user_credentials", "users", "firebase_auth">>

AllSteps == {Steps[i] : i \in 1..Len(Steps)}

\* Whether each commit of a batch, or each delete of a file, went through.
Fates(n) == UNION {[1..k -> BOOLEAN] : k \in 0..n}

Done(fs) == Cardinality({i \in DOMAIN fs : fs[i]})

AllDone(fs) == \A i \in DOMAIN fs : fs[i]

\* The counts returned when the query raises, or else for the commits cs.
_delete_collection_by_user_id(queryRaises, cs) ==
    IF queryRaises THEN [deleted |-> 0, errors |-> 1]
    ELSE [deleted |-> batch_size * Done(cs), errors |-> batch_size * (Len(cs) - Done(cs))]

\* The exceptions are printed; only the count is returned.
_delete_saved_jobs(queryRaises, cs) == IF queryRaises THEN 0 ELSE batch_size * Done(cs)

delete_all_user_resumes(listRaises, ds) == IF listRaises THEN 0 ELSE Done(ds)

_delete_user_credentials(raises) == ~raises

_delete_user_profile(raises) == ~raises

\* A user that is not found counts as deleted.
_delete_firebase_auth_user(outcome) == outcome \in {"deleted", "not_found"}

DeleteInit ==
    /\ delStep = 1
    /\ attempted = {}
    /\ failedSteps = {}
    /\ deleted_counts = [s \in AllSteps |-> 0]
    /\ errors = <<>>
    /\ success = FALSE

\* The step to run next.
AtStep(step) == delStep <= Len(Steps) /\ Steps[delStep] = step

\* What every step does to the result: the count, a message if the step
\* reports one, and the move to the next step.
StepDone(step, deleted, reports, failed) ==
    /\ delStep' = delStep + 1
    /\ attempted' = attempted \cup {step}
    /\ failedSteps' = IF failed THEN failedSteps \cup {step} ELSE failedSteps
    /\ deleted_counts' = [deleted_counts EXCEPT ![step] = deleted]
    /\ errors' = IF reports THEN Append(errors, step) ELSE errors

\* Steps 1 to 3: a collection filtered by user_id.
DeleteCollection(step, queryRaises, cs) ==
    /\ step \in {"sessions", "feedback", "interviews", "text_interviews", "coaching_sessions"}
    /\ AtStep(step)
    /\ LET result == _delete_collection_by_user_id(queryRaises, cs)
       IN  StepDone(step, result.deleted, result.errors > 0, queryRaises \/ ~AllDone(cs))
    /\ UNCHANGED <<notDelete, success>>

\* Step 4
DeleteSavedJobs(queryRaises, cs) ==
    /\ AtStep("saved_jobs")
    /\ StepDone("saved_jobs", _delete_saved_jobs(queryRaises, cs), FALSE, queryRaises \/ ~AllDone(cs))
    /\ UNCHANGED <<notDelete, success>>

\* Step 4.5
DeleteResumeFiles(listRaises, ds) ==
    /\ AtStep("resume_files")
    /\ StepDone("resume_files", delete_all_user_resumes(listRaises, ds), FALSE, listRaises \/ ~AllDone(ds))
    /\ UNCHANGED <<notDelete, success>>

\* Step 5
DeleteCredentials(raises) ==
    /\ AtStep("user_credentials")
    /\ LET ok == _delete_user_credentials(raises)
       IN  StepDone("user_credentials", IF ok THEN 1 ELSE 0, ~ok, raises)
    /\ UNCHANGED <<notDelete, success>>

\* Step 6
DeleteProfile(raises) ==
    /\ AtStep("users")
    /\ LET ok == _delete_user_profile(raises)
       IN  StepDone("users", IF ok THEN 1 ELSE 0, ~ok, raises)
    /\ UNCHANGED <<notDelete, success>>

\* Step 7
DeleteAuthUser(outcome) ==
    /\ AtStep("firebase_auth")
    /\ LET auth_deleted == _delete_firebase_auth_user(outcome)
       IN  StepDone("firebase_auth", IF auth_deleted THEN 1 ELSE 0, ~auth_deleted, outcome = "error")
    /\ UNCHANGED <<notDelete, success>>

\* The return: success needs the auth user deleted and no error message.
ReturnResult ==
    /\ delStep = Len(Steps) + 1
    /\ delStep' = delStep + 1
    /\ success' = (deleted_counts["firebase_auth"] = 1 /\ errors = <<>>)
    /\ UNCHANGED <<notDelete, attempted, failedSteps, deleted_counts, errors>>

NextDelete ==
    \/ \E step \in AllSteps, queryRaises \in BOOLEAN, cs \in Fates(MaxBatches) :
           DeleteCollection(step, queryRaises, cs)
    \/ \E queryRaises \in BOOLEAN, cs \in Fates(MaxBatches) : DeleteSavedJobs(queryRaises, cs)
    \/ \E listRaises \in BOOLEAN, ds \in Fates(MaxFiles) : DeleteResumeFiles(listRaises, ds)
    \/ \E raises \in BOOLEAN : DeleteCredentials(raises)
    \/ \E raises \in BOOLEAN : DeleteProfile(raises)
    \/ \E outcome \in {"deleted", "not_found", "error"} : DeleteAuthUser(outcome)
    \/ ReturnResult

----------------------------------------------------------------------------
(* normalize_change_type, normalize_question_type *)

\* A value is text written in fragments of words: a word that holds a
\* keyword of the validators is written with that keyword as a fragment.
\* The fragments that have capital letters, with what str.lower makes of them.
Lowered ==
    ("Hire" :> "hire") @@ ("LEFT" :> "left") @@ ("Other" :> "other") @@
    ("Tech" :> "tech") @@ ("Behavior" :> "behavior") @@ ("Company" :> "company")

lower(s) == [i \in 1..Len(s) |-> IF s[i] \in DOMAIN Lowered THEN Lowered[s[i]] ELSE s[i]]

\* p in s
In(p, s) == find(s, p) > 0

\* The Literal of LeadershipChange.change_type
ChangeTypes ==
    { <<"new_", "hire">>, <<"departure">>, <<"promotion">>, <<"restructure">>,
      <<"no", "_", "change">>, <<"other">> }

\* The Literal of PredictedQuestion.question_type
QuestionTypes ==
    { <<"behavior", "al">>, <<"tech", "nical">>, <<"situation", "al">>,
      <<"company", "-", "specific">> }

normalize_change_type_exact(v) ==
    IF v.t # "str" THEN <<"other">>
    ELSE LET v_lower == strip(lower(v.chars))
         IN  IF v_lower \in ChangeTypes THEN v_lower ELSE <<"other">>

normalize_change_type(v) ==
    IF v.t # "str" THEN <<"other">>
    ELSE LET v_lower == strip(lower(v.chars))
         IN  IF \/ In(<<"new_", "hire">>, v_lower) \/ In(<<"hire">>, v_lower)
                \/ In(<<"appointment">>, v_lower) \/ In(<<"joined">>, v_lower)
             THEN <<"new_", "hire">>
             ELSE IF \/ In(<<"departure">>, v_lower) \/ In(<<"left">>, v_lower)
                     \/ In(<<"resigned">>, v_lower) \/ In(<<"retired">>, v_lower)
             THEN <<"departure">>
             ELSE IF In(<<"promotion">>, v_lower) \/ In(<<"promoted">>, v_lower)
             THEN <<"promotion">>
             ELSE IF In(<<"restructure">>, v_lower) \/ In(<<"reorgan">>, v_lower)
             THEN <<"restructure">>
             ELSE IF In(<<"no", "_", "change">>, v_lower) \/ In(<<"no", Space, "change">>, v_lower)
             THEN <<"no", "_", "change">>
             ELSE IF v_lower \in ChangeTypes THEN v_lower
             ELSE <<"other">>

normalize_question_type(v) ==
    IF v.t # "str" THEN <<"behavior", "al">>
    ELSE LET v_lower == strip(lower(v.chars))
         IN  IF In(<<"behavior", "al">>, v_lower) \/ In(<<"behavior">>, v_lower)
             THEN <<"behavior", "al">>
             ELSE IF In(<<"tech", "nical">>, v_lower) \/ In(<<"tech">>, v_lower)
             THEN <<"tech", "nical">>
             ELSE IF In(<<"situation", "al">>, v_lower) \/ In(<<"situation">>, v_lower)
             THEN <<"situation", "al">>
             ELSE IF In(<<"company">>, v_lower) \/ In(<<"specific">>, v_lower)
             THEN <<"company", "-", "specific">>
             ELSE IF v_lower \in QuestionTypes THEN v_lower
             ELSE <<"behavior", "al">>

(* The values considered *)

\* The largest number of fragments in a value.
MaxFragments == 2

Fragments ==
    { "new_", "hire", "Hire", "re", "d", "appointment", "joined", "departure", "left", "LEFT",
      "resigned", "retired", "promotion", "promoted", "restructure", "reorgan", "ization",
      "no", "_", Space, "change", "other", "Other", "behavior", "Behavior", "al", "tech", "Tech",
      "nical", "situation", "company", "Company", "-", "specific", "x" }

RECURSIVE Written(_)
Written(n) ==
    IF n = 0 THEN {<<>>}
    ELSE Written(n - 1) \cup {Append(t, a) : t \in Written(n - 1), a \in Fragments}

\* Strings, and what a backend writes in place of one: null, a list.
Values == {JStr(t) : t \in Written(MaxFragments)} \cup {JNull, JList(<<>>)}

ValidateIdle ==
    /\ value = JNull
    /\ change_type = <<>>
    /\ question_type = <<>>

ValidateInit ==
    /\ value \in Values
    /\ change_type = <<>>
    /\ question_type = <<>>

\* LeadershipChange is validated with the value as its changeType.
NormalizeChangeType ==
    /\ change_type = <<>>
    /\ change_type' = normalize_change_type(value)
    /\ UNCHANGED <<notValidate, value, question_type>>

\* PredictedQuestion is validated with the value as its type.
NormalizeQuestionType ==
    /\ question_type = <<>>
    /\ question_type' = normalize_question_type(value)
    /\ UNCHANGED <<notValidate, value, change_type>>

NextValidate ==
    \/ NormalizeChangeType
    \/ NormalizeQuestionType

----------------------------------------------------------------------------
(* generate_company_intel and the endpoints that call it *)

\* The requests are for one company: _get_cache_key gives them one key.
\* A handler runs on the event loop without interruption up to its next
\* await of run_in_executor; get_user_active_session has no such await.

MaxRequests == 2

Requests == 1..MaxRequests

Users == {"alice", "bob"}

\* A CompanyIntel, as far as the callers can tell one from another: the
\* request that generated it, the user whose resume its story_mappings were
\* made from ("none" if it has none), and its data_freshness.
CompanyIntel(by, mappings, freshness) ==
    [by |-> by, story_mappings |-> mappings, data_freshness |-> freshness]

NoIntelYet == CompanyIntel(0, "none", "none")

\* An entry of the cache: the intel, and whether cached_at is less than
\* CACHE_TTL_HOURS ago.
Entry(intel_, isFresh) == [intel |-> intel_, fresh |-> isFresh]

NoEntry == Entry(NoIntelYet, FALSE)

NewRequest ==
    [endpoint |-> "none", user |-> "none", resume_data |-> "none", pc |-> "new",
     intel |-> NoIntelYet]

\* refresh_company_intel deletes the entry of the company first.
ClearCache_never(endpoint, c) == c

ClearCache(endpoint, c) == IF endpoint = "refresh" THEN NoEntry ELSE c

\* _get_cached_intel: the intel of a fresh entry; an expired entry is deleted.
_get_cached_intel(c) ==
    IF c # NoEntry /\ c.fresh
    THEN [cached |-> c.intel, cache |-> c]
    ELSE [cached |-> NoIntelYet, cache |-> NoEntry]

CacheIdle ==
    /\ _intel_cache = NoEntry
    /\ request = [r \in Requests |-> NewRequest]
    /\ overtaken = {}

CacheInit == CacheIdle

\* The requests other than r that are generating.
Generating(r) == {q \in Requests \ {r} : request[q].pc \in {"grounding", "gather"}}

\* A request is received by generate_company_intel_endpoint or by
\* refresh_company_intel. The handler reads the resume of the caller from
\* the caller's session and calls generate_company_intel, which returns a
\* copy of the cached intel or starts the generation.
Begin(r, endpoint, user, include_story_mapping, hasResume) ==
    /\ request[r].pc = "new"
    /\ LET cleared == ClearCache(endpoint, _intel_cache)
           resume_data == IF (endpoint = "refresh" \/ include_story_mapping) /\ hasResume
                          THEN user ELSE "none"
           got == _get_cached_intel(cleared)
       IN  /\ _intel_cache' = got.cache
           /\ IF got.cached # NoIntelYet
              THEN /\ request' = [request EXCEPT ![r] =
                          [endpoint |-> endpoint, user |-> user, resume_data |-> resume_data,
                           pc |-> "done",
                           intel |-> CompanyIntel(got.cached.by, got.cached.story_mappings, "cached")]]
              ELSE /\ request' = [request EXCEPT ![r] =
                          [endpoint |-> endpoint, user |-> user, resume_data |-> resume_data,
                           pc |-> "grounding", intel |-> NoIntelYet]]
    /\ UNCHANGED <<notCache, overtaken>>

\* _generate_intel_with_grounding returns, or raises and the request fails.
Grounded(r, raises) ==
    /\ request[r].pc = "grounding"
    /\ request' = [request EXCEPT ![r].pc = IF raises THEN "failed" ELSE "gather"]
    /\ UNCHANGED <<notCache, _intel_cache, overtaken>>

\* The questions and the story mappings are there: the intel is built,
\* cached and returned. The mapping gives nothing when it fails inside;
\* when the intel cannot be built the request fails.
Gathered(r, mapped, built) ==
    /\ request[r].pc = "gather"
    /\ LET story_mappings == IF request[r].resume_data # "none" /\ mapped
                             THEN request[r].resume_data ELSE "none"
           intel_ == CompanyIntel(r, story_mappings, "real-time")
       IN  IF built
           THEN /\ _intel_cache' = Entry(intel_, TRUE)
                /\ request' = [request EXCEPT ![r].pc = "done", ![r].intel = intel_]
                /\ overtaken' = overtaken \cup Generating(r)
           ELSE /\ request' = [request EXCEPT ![r].pc = "failed"]
                /\ UNCHANGED <<_intel_cache, overtaken>>
    /\ UNCHANGED notCache

\* CACHE_TTL_HOURS pass since the entry was cached.
Expire ==
    /\ _intel_cache # NoEntry
    /\ _intel_cache.fresh
    /\ _intel_cache' = [_intel_cache EXCEPT !.fresh = FALSE]
    /\ UNCHANGED <<notCache, request, overtaken>>

NextCache ==
    \/ \E r \in Requests, endpoint \in {"generate", "refresh"}, user \in Users,
          include_story_mapping \in BOOLEAN, hasResume \in BOOLEAN :
          Begin(r, endpoint, user, include_story_mapping, hasResume)
    \/ \E r \in Requests, raises \in BOOLEAN : Grounded(r, raises)
    \/ \E r \in Requests, mapped \in BOOLEAN, built \in BOOLEAN : Gathered(r, mapped, built)
    \/ Expire

----------------------------------------------------------------------------
(* The text interview of one session *)

\* load_interview_state and save_interview_state call the store without an
\* await, so a handler runs without interruption except where it awaits the
\* generation of the interviewer's response.

\* interview_config.max_questions
max_questions == 2

\* The calls of process_user_message.
MaxCalls == 2

Calls == 1..MaxCalls

\* The longest transcript resume_interview is called on.
MaxMessages == 4

\* A message: its role, the call that appended it (0: the first message or
\* a resume message), and whether its content has a question mark.
TextInterviewMessage(role, c, asks) == [role |-> role, call |-> c, asks |-> asks]

\* The fields of TextInterviewState the handlers decide on.
TextInterviewState(status, messages, question_count) ==
    [status |-> status, messages |-> messages, question_count |-> question_count]

\* start_text_interview: the first message holds the first question.
StartedState ==
    TextInterviewState("active", <<TextInterviewMessage("interviewer", 0, TRUE)>>, 1)

NewCall == [pc |-> "new", state |-> StartedState, should_close |-> FALSE]

InterviewIdle ==
    /\ stored = StartedState
    /\ call = [c \in Calls |-> NewCall]
    /\ completedWith = <<>>

InterviewInit == InterviewIdle

\* process_user_message up to the await of the generation: the state is
\* loaded, the call is refused unless the interview is active, and the user
\* message is appended to the loaded state.
ProcessLoad(c) ==
    /\ call[c].pc = "new"
    /\ IF stored.status # "active"
       THEN call' = [call EXCEPT ![c].pc = "refused"]
       ELSE call' = [call EXCEPT ![c] =
                [pc |-> "generating",
                 state |-> [stored EXCEPT !.messages =
                                Append(@, TextInterviewMessage("user", c, FALSE))],
                 should_close |-> stored.question_count >= max_questions]]
    /\ UNCHANGED <<notInterview, stored, completedWith>>

\* process_user_message from the generated response on: the response is a
\* closing statement, a question or neither (the fallback used when the
\* generation fails is a question); it is appended to the state loaded
\* before the await, and that whole state is saved.
ProcessSave(c, generated) ==
    /\ call[c].pc = "generating"
    /\ LET response == IF call[c].should_close THEN "closing" ELSE generated
           asked == response = "question"
           state == [call[c].state EXCEPT
                        !.messages = Append(@, TextInterviewMessage("interviewer", c, asked)),
                        !.question_count = IF asked THEN @ + 1 ELSE @]
       IN  /\ stored' = state
           /\ call' = [call EXCEPT ![c].pc = "done", ![c].state = state]
    /\ UNCHANGED <<notInterview, completedWith>>

pause_interview ==
    /\ stored' = [stored EXCEPT !.status = "paused"]
    /\ UNCHANGED <<notInterview, call, completedWith>>

\* The last message of the interviewer, the opening message if none other.
LastInterviewerMessage(messages) ==
    LET at == {i \in 1..Len(messages) : messages[i].role = "interviewer"}
    IN  messages[Max(at)]

resume_interview ==
    /\ Len(stored.messages) < MaxMessages
    /\ stored.status = "paused"
    /\ stored' = [stored EXCEPT
                     !.status = "active",
                     !.messages = Append(@, TextInterviewMessage("interviewer", 0,
                                     ~LastInterviewerMessage(stored.messages).asks))]
    /\ UNCHANGED <<notInterview, call, completedWith>>

end_interview ==
    /\ stored' = [stored EXCEPT !.status = "completed"]
    /\ completedWith' = IF completedWith = <<>> THEN stored.messages ELSE completedWith
    /\ UNCHANGED <<notInterview, call>>

NextInterview ==
    \/ \E c \in Calls : ProcessLoad(c)
    \/ \E c \in Calls, generated \in {"question", "statement", "closing"} : ProcessSave(c, generated)
    \/ pause_interview
    \/ resume_interview
    \/ end_interview

----------------------------------------------------------------------------
(* _stream_generate *)

\* The thread of sync_stream and the generator run at the same time: a step
\* of one may fall between any two steps of the other.

\* The largest number of chunks the backend sends.
MaxChunks == 3

\* The text of the k-th chunk is written k. The end signal the thread puts last:
EndSignal == -1

StreamIdle ==
    /\ chunk_queue = <<>>
    /\ error_holder = <<>>
    /\ thread = "streaming"
    /\ consumer = "check"
    /\ made = 0
    /\ produced = <<>>
    /\ yielded = <<>>

StreamInit == StreamIdle

\* The backend sends a chunk: the thread puts its text unless it is empty.
Chunk(hasText) ==
    /\ thread = "streaming"
    /\ made < MaxChunks
    /\ made' = made + 1
    /\ IF hasText
       THEN /\ chunk_queue' = Append(chunk_queue, made + 1)
            /\ produced' = Append(produced, made + 1)
       ELSE UNCHANGED <<chunk_queue, produced>>
    /\ UNCHANGED <<notStream, error_holder, thread, consumer, yielded>>

\* The backend raises: the except clause appends the exception.
StreamError ==
    /\ thread = "streaming"
    /\ error_holder' = Append(error_holder, "error")
    /\ thread' = "finishing"
    /\ UNCHANGED <<notStream, chunk_queue, consumer, made, produced, yielded>>

\* The backend has sent its last chunk.
StreamComplete ==
    /\ thread = "streaming"
    /\ thread' = "finishing"
    /\ UNCHANGED <<notStream, chunk_queue, error_holder, consumer, made, produced, yielded>>

\* The finally clause puts the end signal and the thread ends.
SignalEnd ==
    /\ thread = "finishing"
    /\ chunk_queue' = Append(chunk_queue, EndSignal)
    /\ thread' = "ended"
    /\ UNCHANGED <<notStream, error_holder, consumer, made, produced, yielded>>

\* The head of the loop: with an exception in error_holder the generator
\* goes on to join the thread and raise, otherwise to the get.
CheckError ==
    /\ consumer = "check"
    /\ consumer' = IF error_holder # <<>> THEN "raising" ELSE "get"
    /\ UNCHANGED <<notStream, chunk_queue, error_holder, thread, made, produced, yielded>>

\* thread.join() returns and the exception is raised to the consumer.
RaiseError ==
    /\ consumer = "raising"
    /\ thread = "ended"
    /\ consumer' = "raised"
    /\ UNCHANGED <<notStream, chunk_queue, error_holder, thread, made, produced, yielded>>

\* chunk_queue.get returns an item: a chunk text is yielded and the loop
\* goes on, the end signal leaves the loop.
GetChunk ==
    /\ consumer = "get"
    /\ chunk_queue # <<>>
    /\ chunk_queue' = Tail(chunk_queue)
    /\ IF Head(chunk_queue) = EndSignal
       THEN consumer' = "joining" /\ UNCHANGED yielded
       ELSE consumer' = "check" /\ yielded' = Append(yielded, Head(chunk_queue))
    /\ UNCHANGED <<notStream, error_holder, thread, made, produced>>

\* chunk_queue.get times out on the empty queue; the generator sleeps and
\* goes back to the head of the loop.
GetTimeout ==
    /\ consumer = "get"
    /\ chunk_queue = <<>>
    /\ consumer' = "check"
    /\ UNCHANGED <<notStream, chunk_queue, error_holder, thread, made, produced, yielded>>

\* After the loop: thread.join() returns and the generator terminates.
Terminate ==
    /\ consumer = "joining"
    /\ thread = "ended"
    /\ consumer' = "terminated"
    /\ UNCHANGED <<notStream, chunk_queue, error_holder, thread, made, produced, yielded>>

NextStream ==
    \/ \E hasText \in BOOLEAN : Chunk(hasText)
    \/ StreamError
    \/ StreamComplete
    \/ SignalEnd
    \/ CheckError
    \/ RaiseError
    \/ GetChunk
    \/ GetTimeout
    \/ Terminate

----------------------------------------------------------------------------
(* _add_resume_version *)

\* The calls are made by handlers of one event loop. Nothing the function
\* awaits suspends it (_get_user_resume_versions and delete_resume_file call
\* their stores without an await), so a call runs from its read of the user
\* document to its last update before another call starts.

MAX_RESUME_VERSIONS == 10

\* The largest number of calls.
MaxUploads == 12

\* The k-th call adds the version k; a later version has a later uploaded_at.

\* The oldest version that is not the current one, 0 if there is none.
OldestNotCurrent(versions, current_version_id) ==
    LET others_ == {versions[i] : i \in 1..Len(versions)} \ {current_version_id}
    IN  IF others_ = {} THEN 0 ELSE Min(others_)

\* ArrayRemove
ArrayRemove(array, element) == SelectSeq(array, LAMBDA e : e # element)

\* ArrayUnion
ArrayUnion(array, element) ==
    IF \E i \in 1..Len(array) : array[i] = element THEN array ELSE Append(array, element)

\* The versions left after the removal the function makes before it adds one.
Trimmed_never(versions, current_version_id) == versions

Trimmed(versions, current_version_id) ==
    IF Len(versions) >= MAX_RESUME_VERSIONS
    THEN ArrayRemove(versions, OldestNotCurrent(versions, current_version_id))
    ELSE versions

VersionIdle ==
    /\ resume_versions = <<>>
    /\ current_resume_version_id = 0
    /\ uploads = 0

VersionInit == VersionIdle

\* A call of _add_resume_version; the last update may raise.
AddResumeVersion(set_as_current, updateRaises) ==
    /\ uploads < MaxUploads
    /\ uploads' = uploads + 1
    /\ LET version_id == uploads + 1
           trimmed == Trimmed(resume_versions, current_resume_version_id)
       IN  IF updateRaises
           THEN /\ resume_versions' = trimmed
                /\ UNCHANGED current_resume_version_id
           ELSE /\ resume_versions' = ArrayUnion(trimmed, version_id)
                /\ current_resume_version_id' =
                       IF set_as_current THEN version_id ELSE current_resume_version_id
    /\ UNCHANGED notVersion

NextVersion ==
    \E set_as_current \in BOOLEAN, updateRaises \in BOOLEAN :
        AddResumeVersion(set_as_current, updateRaises)

----------------------------------------------------------------------------
(* Specifications *)

Init ==
    OrchInit /\ RetryIdle /\ ExtractIdle /\ RepairIdle /\ DeleteInit
    /\ ValidateIdle /\ CacheIdle /\ InterviewIdle /\ StreamIdle
    /\ VersionIdle

Spec == Init /\ [][Next]_vars

InitRetry ==
    OrchIdle /\ RetryInit /\ ExtractIdle /\ RepairIdle /\ DeleteInit
    /\ ValidateIdle /\ CacheIdle /\ InterviewIdle /\ StreamIdle
    /\ VersionIdle

SpecRetry == InitRetry /\ [][NextRetry]_vars

InitExtract ==
    OrchIdle /\ RetryIdle /\ ExtractInit /\ RepairIdle /\ DeleteInit
    /\ ValidateIdle /\ CacheIdle /\ InterviewIdle /\ StreamIdle
    /\ VersionIdle

SpecExtract == InitExtract /\ [][NextExtract]_vars

InitRepair ==
    OrchIdle /\ RetryIdle /\ ExtractIdle /\ RepairInit /\ DeleteInit
    /\ ValidateIdle /\ CacheIdle /\ InterviewIdle /\ StreamIdle
    /\ VersionIdle

SpecRepair == InitRepair /\ [][NextRepair]_vars

InitDelete ==
    OrchIdle /\ RetryIdle /\ ExtractIdle /\ RepairIdle /\ DeleteInit
    /\ ValidateIdle /\ CacheIdle /\ InterviewIdle /\ StreamIdle
    /\ VersionIdle

SpecDelete == InitDelete /\ [][NextDelete]_vars

InitValidate ==
    OrchIdle /\ RetryIdle /\ ExtractIdle /\ RepairIdle /\ DeleteInit
    /\ ValidateInit /\ CacheIdle /\ InterviewIdle /\ StreamIdle
    /\ VersionIdle

SpecValidate == InitValidate /\ [][NextValidate]_vars

InitCache ==
    OrchIdle /\ RetryIdle /\ ExtractIdle /\ RepairIdle /\ DeleteInit
    /\ ValidateIdle /\ CacheInit /\ InterviewIdle /\ StreamIdle
    /\ VersionIdle

SpecCache == InitCache /\ [][NextCache]_vars

InitInterview ==
    OrchIdle /\ RetryIdle /\ ExtractIdle /\ RepairIdle /\ DeleteInit
    /\ ValidateIdle /\ CacheIdle /\ InterviewInit /\ StreamIdle
    /\ VersionIdle

SpecInterview == InitInterview /\ [][NextInterview]_vars

InitStream ==
    OrchIdle /\ RetryIdle /\ ExtractIdle /\ RepairIdle /\ DeleteInit
    /\ ValidateIdle /\ CacheIdle /\ InterviewIdle /\ StreamInit
    /\ VersionIdle

SpecStream == InitStream /\ [][NextStream]_vars

InitVersion ==
    OrchIdle /\ RetryIdle /\ ExtractIdle /\ RepairIdle /\ DeleteInit
    /\ ValidateIdle /\ CacheIdle /\ InterviewIdle /\ StreamIdle
    /\ VersionInit

SpecVersion == InitVersion /\ [][NextVersion]_vars

----------------------------------------------------------------------------
(* Vocabulary of the properties *)

Created(t) == taskState[t] # "absent"

\* Positions of the stream that hold an event about task t.
EventsOf(t) == {i \in 1..Len(stream) : EventTask(stream[i]) = t}

\* Positions that hold an error event naming task t.
ErrorsOf(t) == {i \in EventsOf(t) : stream[i].type = "error"}

CompleteEvents == {i \in 1..Len(stream) : stream[i].type = "complete"}

\* Position of task t in the order of finishing (0 when it has not finished).
FinishPos(t) ==
    IF \E i \in 1..Len(finishSeq) : finishSeq[i] = t
    THEN CHOOSE i \in 1..Len(finishSeq) : finishSeq[i] = t
    ELSE 0

\* The generator is past `while pending` and was not closed.
LoopLeft == pc \in {"merge", "save", "store", "storage_yielded",
                    "complete_yielded", "fatal_yielded", "done"}

LastEvent == stream[Len(stream)]

\* The stream ended with the run-level error event.
EndedFatal == Len(stream) > 0 /\ LastEvent = FatalError

\* The write of the aggregate to the session store failed.
SinkFailed == EndedFatal /\ merged # NoMerged

NothingPersisted == saved = NoSaved /\ storage = NoStorage

----------------------------------------------------------------------------
(* C1 *)

\* C1: the per-task events appear in the order in which their tasks
\* finished: an event about a task that finished later never precedes an
\* event about a task that finished earlier.
C1_EventsInFinishOrder ==
    \A i, j \in 1..Len(stream) :
        (/\ i < j
         /\ EventTask(stream[i]) # "none"
         /\ EventTask(stream[j]) # "none"
         /\ EventTask(stream[i]) # EventTask(stream[j]))
        => FinishPos(EventTask(stream[i])) < FinishPos(EventTask(stream[j]))

----------------------------------------------------------------------------
(* C2 *)

\* C2: every task whose completion the run has processed has exactly one
\* event in the stream: never two events about one task, and when the
\* generator has run to its end, one event for every task it created.
C2_ExactlyOneEventPerTask ==
    /\ \A t \in Tasks : Cardinality(EventsOf(t)) <= 1
    /\ pc = "done" => \A t \in Tasks : Created(t) => Cardinality(EventsOf(t)) = 1

----------------------------------------------------------------------------
(* C3 *)

\* C3 as stated: a run that has ended was terminated by exactly one
\* complete event, which is the last event of the stream.
C3_AlwaysEndsWithComplete ==
    /\ Cardinality(CompleteEvents) <= 1
    /\ \A i \in CompleteEvents : i = Len(stream)
    /\ pc = "done" => (Len(stream) > 0 /\ LastEvent.type = "complete")

\* C3 as amended: the stream holds at most one complete event and nothing
\* follows it; a run that has ended was terminated either by the complete
\* event or by the run-level error event of a failed merge or handoff, and
\* then it holds no complete event.
C3_CompleteOrFatalIsLast ==
    /\ Cardinality(CompleteEvents) <= 1
    /\ \A i \in CompleteEvents : i = Len(stream)
    /\ \A i \in 1..Len(stream) : stream[i] = FatalError => i = Len(stream)
    /\ pc = "done" => (Len(stream) > 0 /\ (LastEvent.type = "complete" \/ EndedFatal))

\* A run that ended with its complete event after all four tasks.
C3_Witness ==
    /\ pc = "done"
    /\ LastEvent.type = "complete"
    /\ Len(stream) >= 5

----------------------------------------------------------------------------
(* C4 *)

\* C4: once the ats branch has spawned the improve task, the generator does
\* not get past `while pending` before improve has finished, and by then the
\* stream holds exactly one event about improve on top of the events of the
\* seed tasks.
C4_SpawnedTaskIsAwaited ==
    (LoopLeft /\ Created("improve"))
        => /\ Finished("improve")
           /\ Cardinality(EventsOf("improve")) = 1
           /\ \A t \in SeedTasks : Cardinality(EventsOf(t)) = 1
           /\ Cardinality({i \in 1..Len(stream) : EventTask(stream[i]) # "none"}) = 4

\* improve was spawned while career was still running, and the loop is over.
C4_Witness ==
    /\ pc = "merge"
    /\ Created("improve")
    /\ FinishPos("ats") < FinishPos("career")
    /\ Cardinality(EventsOf("improve")) = 1

----------------------------------------------------------------------------
(* C5 *)

\* The run reported seed task t as failed: an error event names it.
TaskFailed(t) == ErrorsOf(t) # {}

\* The aggregate holds what the loop stored for seed task t.
InAggregate(t) ==
    /\ merged # NoMerged
    /\ IF t = "ats"
       THEN results[t] = "empty" \/ merged.atsAnalysis = results[t]
       ELSE merged[t] = results[t]

\* C5: when exactly one of the three seed tasks failed and the session store
\* accepted the write, the ended run holds one event per seed task, the
\* failed one's being its error event, it ends with the complete event, and
\* the aggregate holds the results of the two other seed tasks and nothing
\* of the failed one.
C5_SingleFailureIsolated ==
    \A f \in SeedTasks :
        (/\ pc = "done"
         /\ ~SinkFailed
         /\ TaskFailed(f)
         /\ \A t \in SeedTasks \ {f} : ~TaskFailed(t))
        => /\ \A t \in SeedTasks : Cardinality(EventsOf(t)) = 1
           /\ LastEvent.type = "complete"
           /\ \A t \in SeedTasks \ {f} : InAggregate(t)
           /\ results[f] = "unset"

----------------------------------------------------------------------------
(* C6 *)

\* The value of a task's data event, "none" without one.
DataOf(t) ==
    IF \E i \in EventsOf(t) : stream[i].type = t
    THEN stream[CHOOSE i \in EventsOf(t) : stream[i].type = t].data
    ELSE "none"

----------------------------------------------------------------------------
(* C7 *)

\* An event that is not about one task and carries data: an aggregate.
AggregateEvents ==
    {i \in 1..Len(stream) : EventTask(stream[i]) = "none" /\ "data" \in DOMAIN stream[i]}

----------------------------------------------------------------------------
(* C8 *)

\* C8: a task whose call to the Generation Backend failed with a transport
\* error is reported by an error event naming it, once its completion has
\* been processed; this for each of basic, career, ats and improve.
C8_TransportErrorIsReported ==
    \A t \in Tasks :
        (reply[t] = "transport" /\ EventsOf(t) # {}) => ErrorsOf(t) # {}

----------------------------------------------------------------------------
(* C9 *)

\* C9: after the caller's disconnect has been handled, no task of the run is
\* still running.
C9_NoTaskRunsAfterDisconnect ==
    pc = "closed" => \A t \in Tasks : taskState[t] # "running"

----------------------------------------------------------------------------
(* C10 *)

\* The run still has work of a task in front of it: a task that is running,
\* or that finished without its event having been emitted.
TaskWorkOutstanding == \E t \in Tasks : Created(t) /\ EventsOf(t) = {}

\* C10 as stated: when the caller disconnected before the run finished, that
\* is before its complete event, nothing of the run has been persisted.
C10_DisconnectPersistsNothing ==
    (pc = "closed" /\ CompleteEvents = {}) => NothingPersisted

\* C10 as amended: when the caller disconnected while a task of the run was
\* still unhandled, nothing of the run has been persisted; the session
\* document and the resume file are written only after every task has been
\* handled, in the step that precedes the storage and complete events.
C10_DisconnectDuringTasksPersistsNothing ==
    /\ (pc = "closed" /\ TaskWorkOutstanding) => NothingPersisted
    /\ ~NothingPersisted => ~TaskWorkOutstanding

\* The caller disconnected while the spawned improve task was running, after
\* the three seed tasks had been handled.
C10_Witness ==
    /\ pc = "closed"
    /\ taskState["improve"] = "running"
    /\ \A t \in SeedTasks : EventsOf(t) # {}
    /\ NothingPersisted

----------------------------------------------------------------------------
(* C11 *)

\* Position of the first event about task t (0 without one).
EventPos(t) ==
    IF EventsOf(t) # {}
    THEN CHOOSE i \in EventsOf(t) : \A j \in EventsOf(t) : i <= j
    ELSE 0

\* C11: with A = ats succeeding first of the two and spawning C = improve,
\* B = career succeeding next and C succeeding after B, a run that ended
\* with its complete event emitted the events in the order A, B, C, complete.
C11_SpawnScenarioOrder ==
    (/\ pc = "done"
     /\ LastEvent.type = "complete"
     /\ \A t \in Tasks : reply[t] = "ok"
     /\ FinishPos("ats") < FinishPos("career")
     /\ FinishPos("career") < FinishPos("improve"))
    => /\ EventPos("ats") < EventPos("career")
       /\ EventPos("career") < EventPos("improve")
       /\ EventPos("improve") < Len(stream)

----------------------------------------------------------------------------
(* C19 *)

\* The tasks the loop still has to process: those not yet reported by
\* asyncio.wait (pending) and those of the current batch not yet visited
\* (done).
Unprocessed == pending \cup done

\* C19: every created task is among the loop's unprocessed tasks from its
\* creation until the loop has processed its completion, and only until
\* then: a task without an event is in exactly one of pending and done, a
\* task with an event is in neither (so it is not processed again), a task
\* that was not created is in neither, and the loop is not left while a
\* created task has no event.
C19_NoTaskLostOrRepeated ==
    /\ pending \cap done = {}
    /\ \A t \in Tasks :
           /\ (Created(t) /\ EventsOf(t) = {}) => t \in Unprocessed
           /\ EventsOf(t) # {} => t \notin Unprocessed
           /\ ~Created(t) => t \notin Unprocessed
    /\ LoopLeft => \A t \in Tasks : Created(t) => EventsOf(t) # {}

\* The spawned improve task waits in pending while a seed task of the
\* current batch is still to be visited and another one has been processed.
C19_Witness ==
    /\ "improve" \in pending
    /\ "career" \in done
    /\ EventsOf("ats") # {}
    /\ EventsOf("basic") # {}
    /\ pc = "loop"

----------------------------------------------------------------------------
(* C20 *)

\* C20: the improve task exists only after the ats task has finished with a
\* value, its ats event has been emitted and no error event names ats.
C20_ImproveOnlyAfterAtsSuccess ==
    Created("improve") =>
        /\ Finished("ats")
        /\ taskState["ats"] # "raised"
        /\ DataOf("ats") # "none"
        /\ ErrorsOf("ats") = {}

\* improve is running, spawned from the ats default result, while basic and
\* career are still running.
C20_Witness ==
    /\ taskState["improve"] = "running"
    /\ reply["ats"] = "malformed"
    /\ taskState["basic"] = "running"
    /\ taskState["career"] = "running"

----------------------------------------------------------------------------
(* analyze_transcript: vocabulary *)

HasReturned == returned # NoReturn

\* Every call made so far ended without a valid result.
AllInvalid == \A i \in 1..Len(outcomes) : Invalid(outcomes[i], questionCount)

\* Every call made so far produced an object that fails the validity check.
AllFailValidity == \A i \in 1..Len(outcomes) : FailsValidity(outcomes[i], questionCount)

LastOutcome == outcomes[Len(outcomes)]

\* C12: analyze_transcript makes at most 3 backend calls per invocation, and
\* when every attempt's result fails the validity check it has made exactly 3
\* calls when it returns.
C12_AtMostThreeCalls ==
    /\ calls <= 3
    /\ calls = Len(outcomes)
    /\ (HasReturned /\ AllFailValidity) => calls = 3
    /\ (HasReturned /\ AllInvalid) => calls = 3

C12_Witness ==
    /\ HasReturned
    /\ calls = 3
    /\ AllFailValidity

----------------------------------------------------------------------------
(* _extract_coach_response: vocabulary *)

\* The first call returned a value extracted from the response: by the parse,
\* by the salvage or by the pattern.
Succeeded == first.kind = "returned" /\ first.strategy \in {1, 2, 3}

\* An unescaped quote at or after position i.
RECURSIVE HasClosingQuote(_, _)
HasClosingQuote(t, i) ==
    IF i > Len(t) THEN FALSE
    ELSE IF t[i] = Backslash THEN HasClosingQuote(t, i + 2)
    ELSE IF t[i] = Quote THEN TRUE
    ELSE HasClosingQuote(t, i + 1)

\* Where the coach_response value of the response starts, 0 if it has none.
ValueStart == aggressive_pattern(raw)

\* The response is object text that ends inside its coach_response value.
TruncatedInValue ==
    /\ raw # <<>>
    /\ raw[1] = "{"
    /\ ValueStart > 0
    /\ find(raw, Fence) = 0 \/ find(raw, Fence) >= ValueStart
    /\ ~HasClosingQuote(raw, ValueStart)

\* C14: for every response the extractor returns a dict with the fields
\* coach_response, suggestions, session_notes and action_items, and it never
\* raises.
C14_ExtractorNeverRaises ==
    /\ first.kind # "raised"
    /\ second.kind # "raised"
    /\ DOMAIN first.value = {"coach_response", "suggestions", "session_notes", "action_items"}

\* C15 as stated: for object text truncated inside the coach_response value
\* the extractor returns the unescaped run from the opening quote of the
\* value to the end of the text, and every other field is empty.
C15_SalvageReturnsRun ==
    (first.kind # "none" /\ TruncatedInValue)
    => /\ first.kind = "returned"
       /\ first.value = default_result(content_chars(raw, ValueStart, <<>>))

\* C15 amended: the run ends at the first fence too and is trimmed of the
\* white space around it and of trailing commas; it is returned only when
\* more than 5 characters remain, with up to three items of a complete
\* suggestions array of the text, and otherwise the extractor returns its
\* stock reply.
C15_SalvageReturnsTrimmedRun ==
    (first.kind # "none" /\ TruncatedInValue)
    => LET run == content_chars(BeforeFence(raw), ValueStart, <<>>)
           trimmed == rstrip(rstripChar(strip(run), ","))
       IN  /\ first.kind = "returned"
           /\ IF len(trimmed) > 5
              THEN first.value = Result(JStr(trimmed), JList(salvaged_suggestions(cleaned(raw))),
                                        JList(<<>>), JList(<<>>))
              ELSE first.value = default_result(<<Understand>>)

C15_Witness ==
    /\ raw = ScenarioResponse
    /\ first.kind = "returned"
    /\ first.strategy = 2
    /\ first.value = default_result(ScenarioValue)

\* C16: when the first call succeeded, the extractor run on the JSON text of
\* the value it returned gives that value again.
C16_ReExtractionIsIdentity ==
    (Succeeded /\ second.kind # "none")
    => /\ second.kind = "returned"
       /\ second.value = first.value

\* The trimmed response parsed as it is.
AsIs == json_loads(strip(raw))

\* The trimmed response is a well-formed JSON object with the expected field.
WellFormed == AsIs.err = "none" /\ AsIs.val.t = "dict" /\ Has(AsIs.val, <<"coach_response">>)

\* C22: when the trimmed response is itself a well-formed JSON object with
\* the coach_response field, the extractor returns by its first strategy,
\* and returns the field values of that object.
C22_WellFormedObjectReturnedAsIs ==
    (first.kind # "none" /\ WellFormed)
    => /\ first.kind = "returned"
       /\ first.strategy = 1
       /\ first.value = Result(Get(AsIs.val, <<"coach_response">>, JStr(<<>>)),
                               Get(AsIs.val, <<"suggestions">>, JList(<<>>)),
                               Get(AsIs.val, <<"session_notes">>, JList(<<>>)),
                               Get(AsIs.val, <<"action_items">>, JList(<<>>)))

\* The expected field holds null in the parsed response.
HoldsNull(field) ==
    LET data == json_loads(cleaned(raw))
    IN  /\ data.err = "none"
        /\ data.val.t = "dict"
        /\ Has(data.val, <<"coach_response">>)
        /\ Has(data.val, <<field>>)
        /\ Get(data.val, <<field>>, JStr(<<>>)) = JNull

\* C23: a field that holds null in the parsed response is returned as its
\* default: the empty string for coach_response, the empty list for the others.
C23_NullFieldIsDefault ==
    \A field \in {"coach_response", "suggestions", "session_notes", "action_items"} :
        (first.kind # "none" /\ HoldsNull(field))
        => /\ first.kind = "returned"
           /\ first.value[field] = default_result(<<>>)[field]

----------------------------------------------------------------------------
(* _repair_json: vocabulary *)

\* The cleaned text has 5 opening braces, 3 closing braces and ends with a comma.
FiveOpenThreeClosed ==
    /\ count(intel.text, "{") = 5
    /\ count(intel.text, "}") = 3
    /\ endswith(intel.text, <<",">>)

\* C17: for text with 5 opening braces, 3 closing braces and a trailing comma
\* the repair drops the comma, appends exactly 2 closing braces, and the
\* repaired text parses.
C17_RepairClosesTwoBraces ==
    (intel.kind # "none" /\ FiveOpenThreeClosed)
    => /\ startswith(intel.repaired_text, rstripChar(intel.text, ","))
       /\ count(intel.repaired_text, "}") = 5
       /\ count(intel.repaired_text, ",") = count(intel.text, ",") - 1
       /\ intel.kind = "repaired"

\* The number of closers the repair appends to the cleaned text.
Appended ==
    Max({0, count(intel.text, "[") - count(intel.text, "]")})
        + Max({0, count(intel.text, "{") - count(intel.text, "}")})

\* The containers still open at the end of text, outermost first, as a JSON
\* reader sees them: brackets inside string values do not count.
RECURSIVE OpenContainers(_, _, _, _)
OpenContainers(text, i, inString, stack) ==
    IF i > Len(text) THEN stack
    ELSE IF inString
    THEN IF text[i] = Backslash THEN OpenContainers(text, i + 2, TRUE, stack)
         ELSE OpenContainers(text, i + 1, text[i] # Quote, stack)
    ELSE IF text[i] = Quote THEN OpenContainers(text, i + 1, TRUE, stack)
    ELSE IF text[i] \in {"{", "["} THEN OpenContainers(text, i + 1, FALSE, Append(stack, text[i]))
    ELSE IF text[i] \in {"}", "]"} /\ stack # <<>>
    THEN OpenContainers(text, i + 1, FALSE, SubSeq(stack, 1, Len(stack) - 1))
    ELSE OpenContainers(text, i + 1, FALSE, stack)

\* The closers of the containers of stack, innermost first.
InnermostFirst(stack) ==
    [i \in 1..Len(stack) |-> IF stack[Len(stack) + 1 - i] = "{" THEN "}" ELSE "]"]

\* C21: the closers the repair appends close the containers still open in the
\* text they are appended to, the innermost first.
C21_ClosersInNestingOrder ==
    (intel.repaired_text # <<>> /\ Appended > 0)
    => LET n == Len(intel.repaired_text) - Appended
           kept == SubSeq(intel.repaired_text, 1, n)
           closers == SubSeq(intel.repaired_text, n + 1, Len(intel.repaired_text))
           expected == InnermostFirst(OpenContainers(kept, 1, FALSE, <<>>))
       IN  closers = SubSeq(expected, 1, Min({Len(closers), Len(expected)}))

----------------------------------------------------------------------------
(* delete_user_account: vocabulary *)

Returned == delStep = Len(Steps) + 2

\* The steps that appended a message to errors.
Reported == {errors[i] : i \in 1..Len(errors)}

\* C18: delete_user_account attempts every deletion step even when earlier
\* steps fail, and each failed step is recorded in errors with a count of 0.
C18_EveryStepAttemptedFailuresRecorded ==
    Returned
    => /\ attempted = AllSteps
       /\ \A step \in failedSteps : step \in Reported /\ deleted_counts[step] = 0

----------------------------------------------------------------------------
(* The validators: vocabulary *)

\* The rules of a validator in the order in which it tries them: the
\* keywords of the rule and the value it gives.
ChangeRules ==
    << [keywords |-> {<<"new_", "hire">>, <<"hire">>, <<"appointment">>, <<"joined">>},
        gives |-> <<"new_", "hire">>],
       [keywords |-> {<<"departure">>, <<"left">>, <<"resigned">>, <<"retired">>},
        gives |-> <<"departure">>],
       [keywords |-> {<<"promotion">>, <<"promoted">>}, gives |-> <<"promotion">>],
       [keywords |-> {<<"restructure">>, <<"reorgan">>}, gives |-> <<"restructure">>],
       [keywords |-> {<<"no", "_", "change">>, <<"no", Space, "change">>},
        gives |-> <<"no", "_", "change">>] >>

QuestionRules ==
    << [keywords |-> {<<"behavior", "al">>, <<"behavior">>}, gives |-> <<"behavior", "al">>],
       [keywords |-> {<<"tech", "nical">>, <<"tech">>}, gives |-> <<"tech", "nical">>],
       [keywords |-> {<<"situation", "al">>, <<"situation">>}, gives |-> <<"situation", "al">>],
       [keywords |-> {<<"company">>, <<"specific">>}, gives |-> <<"company", "-", "specific">>] >>

\* The allowed values the value contains, case ignored.
Contained(allowed) ==
    IF value.t # "str" THEN {} ELSE {a \in allowed : In(a, lower(value.chars))}

\* The rules of which the value contains a keyword, case ignored.
Matching(rules) ==
    IF value.t # "str" THEN {}
    ELSE {i \in 1..Len(rules) : \E k \in rules[i].keywords : In(k, lower(value.chars))}

\* C24 as stated: the validator returns an allowed value; a value that
\* contains an allowed value is normalized to an allowed value it contains,
\* and every other value to the default.
StatedResult(result, allowed, default) ==
    /\ result \in allowed
    /\ IF Contained(allowed) # {} THEN result \in Contained(allowed) ELSE result = default

C24_AllowedValueOrDefault ==
    /\ change_type # <<>> => StatedResult(change_type, ChangeTypes, <<"other">>)
    /\ question_type # <<>> => StatedResult(question_type, QuestionTypes, <<"behavior", "al">>)

\* C24 amended: the validator returns an allowed value: the value of the
\* first of its rules of which the input contains a keyword, case ignored,
\* where the keywords of a rule are an allowed value and its variations;
\* an input that contains no keyword, and an input that is not a string,
\* is mapped to the default.
RuleResult(result, allowed, rules, default) ==
    /\ result \in allowed
    /\ IF Matching(rules) # {} THEN result = rules[Min(Matching(rules))].gives
       ELSE result = default

C24_AllowedValueByFirstRule ==
    /\ change_type # <<>> => RuleResult(change_type, ChangeTypes, ChangeRules, <<"other">>)
    /\ question_type # <<>>
       => RuleResult(question_type, QuestionTypes, QuestionRules, <<"behavior", "al">>)

C24_Witness ==
    /\ value = JStr(<<"Hire", "d">>)
    /\ change_type = <<"new_", "hire">>
    /\ question_type = <<"behavior", "al">>

----------------------------------------------------------------------------
(* generate_company_intel: vocabulary *)

\* The requests that returned an intel to their caller.
Answered == {r \in Requests : request[r].pc = "done"}

\* C25: the intel returned to a caller holds story mappings made from that
\* caller's own resume, or none.
C25_OnlyOwnStoryMappings ==
    \A r \in Answered : request[r].intel.story_mappings \in {"none", request[r].user}

\* C26: the intel refresh_company_intel returns was generated by that
\* request and is not a cached entry, whatever other requests for the
\* company ran at the same time.
C26_RefreshReturnsOwnFreshIntel ==
    \A r \in Answered :
        request[r].endpoint = "refresh"
        => /\ request[r].intel.by = r
           /\ request[r].intel.data_freshness = "real-time"

\* A refresh returned after another request had cached its intel while the
\* refresh was generating.
C26_Witness ==
    \E r \in Answered :
        /\ request[r].endpoint = "refresh"
        /\ r \in overtaken
        /\ request[r].intel.by = r

----------------------------------------------------------------------------
(* The text interview: vocabulary *)

Transcript == {stored.messages[i] : i \in 1..Len(stored.messages)}

\* C27: the user message of every call of process_user_message that
\* returned, and the response appended with it, is in the stored transcript.
C27_AcceptedMessagesStayStored ==
    \A c \in Calls :
        call[c].pc = "done"
        => /\ \E m \in Transcript : m.role = "user" /\ m.call = c
           /\ \E m \in Transcript : m.role = "interviewer" /\ m.call = c

\* C28: once end_interview has completed the interview, its status stays
\* completed and its transcript stays the one it was completed with.
C28_CompletedStaysCompleted ==
    completedWith # <<>>
    => /\ stored.status = "completed"
       /\ stored.messages = completedWith

----------------------------------------------------------------------------
(* _stream_generate: vocabulary *)

\* C29: the generator yields the non-empty chunks in the order in which the
\* thread produced them; it terminates only when the backend has not
\* failed, and then it has yielded every chunk; when the backend has failed
\* it has yielded every chunk produced before the failure by the time the
\* error is raised.
C29_YieldsEveryChunkInOrder ==
    /\ Len(yielded) <= Len(produced)
    /\ yielded = SubSeq(produced, 1, Len(yielded))
    /\ consumer = "terminated" => error_holder = <<>> /\ yielded = produced
    /\ consumer = "raised" => yielded = produced

----------------------------------------------------------------------------
(* _add_resume_version: vocabulary *)

====
